---- MODULE Spec2Model ----
(***************************************************************************)
(* Model of the cryptojacking detection pipeline:                          *)
(*   modelo_ML/eve_analyzer.py     EVEAnalyzer (events -> Suricata rules)  *)
(*   modelo_ML/pipeline_monitor.py PipelineMonitor (the monitoring loop)   *)
(*                                                                         *)
(* A Python str is a sequence of one-character strings, so that escaping,  *)
(* lower-casing and substring tests are computed character by character.   *)
(* A rule body is a sequence of tokens: the literal pieces of the source's *)
(* f-string are multi-character tokens, an interpolated str contributes    *)
(* its characters one token each, an interpolated number is ToString of it.*)
(* A Python dict is a function whose DOMAIN is the set of keys present.    *)
(***************************************************************************)
EXTENDS Integers, Sequences, FiniteSets, TLC

VARIABLES
    \* one EVEAnalyzer and its caller
    a_events,     \* the argument of the analyze_events call
    a_max_rules,  \* EVEAnalyzer.max_rules
    analyzer,     \* generated_rules, rule_counter, seen_patterns (+ rule_keys)
    a_pc,         \* position inside analyze_events
    a_ret,        \* the list the last call returned
    a_calls,      \* calls made so far
    \* one check_suricata_alerts call
    c_file,       \* the file at eve_json_path
    c_now,        \* datetime.now().timestamp() taken by the call
    c_window,     \* time_window_seconds
    c_pc,         \* "start", "scan", "returned"
    c_idx,        \* index of the next line of the for loop
    c_result,     \* the value returned
    \* one _reload_suricata_rules call
    r_env,        \* what the commands and the signal do in this call
    r_pc,         \* "control", "signal", "service", "give_up", "returned", "raised"
    r_log,        \* the strategies attempted so far, with their outcomes
    \* one send_rules_to_backend call
    s_rules,      \* the argument parsed_rules
    s_pc,         \* "start", "loop", "returned", "raised"
    s_idx,        \* index of the next rule of the for loop
    s_posts,      \* the POSTs issued so far: [rule, outcome]
    s_success,    \* success_count
    \* PipelineMonitor.run
    p_pc,         \* position inside the cycle; "stopped", "crashed" after the loop
    cycle_count,  \* run's cycle_count
    p_now,        \* the clock, in seconds
    p_metrics,    \* the sample of this cycle (None before it is taken)
    p_result,     \* the classification of this cycle (None before it is made)
    detection_count,      \* PipelineMonitor.detection_count
    last_detection_time,  \* PipelineMonitor.last_detection_time
    eve_analyzer, \* PipelineMonitor.eve_analyzer
    eve_file,     \* the file at eve_json_path as this cycle finds it
    p_events,     \* handle_mining_detection's events
    p_rules,      \* handle_mining_detection's parsed_rules
    rules_file,           \* the backup log, as lines
    suricata_rules_file,  \* the engine rule file, as lines
    cycle_log,    \* what this cycle has done so far, step by step
    \* one _read_all_recent_events call
    t_file,       \* the file at eve_json_path
    t_now,        \* datetime.now() of the call, in seconds
    t_max_events, \* the argument max_events
    t_window,     \* the argument time_window_minutes
    t_pc,         \* "start", "loop", "returned"
    t_recent,     \* all_lines[-max_events:]
    t_idx,        \* index in t_recent of the next line of the backward loop
    t_events,     \* the local list events
    t_ret,        \* the value returned
    \* handle_mining_detection next to the signature engine, on eve.json
    f_file,       \* the file at eve_json_path
    f_pc,         \* "coverage", "test", "create", "read", "done"
    f_engine,     \* every record the engine has written, in order
    f_events      \* handle_mining_detection's events

avars == <<a_events, a_max_rules, analyzer, a_pc, a_ret, a_calls>>
cvars == <<c_file, c_now, c_window, c_pc, c_idx, c_result>>
rvars == <<r_env, r_pc, r_log>>
svars == <<s_rules, s_pc, s_idx, s_posts, s_success>>
pvars == <<p_pc, cycle_count, p_now, p_metrics, p_result, detection_count,
           last_detection_time, eve_analyzer, eve_file, p_events, p_rules,
           rules_file, suricata_rules_file, cycle_log>>
tvars == <<t_file, t_now, t_max_events, t_window, t_pc, t_recent, t_idx, t_events, t_ret>>
fvars == <<f_file, f_pc, f_engine, f_events>>
vars == <<avars, cvars, rvars, svars, pvars, tvars, fvars>>

\* Each specification below runs one component; the variables of the other
\* components keep these values throughout.
IdleAnalyzer ==
    /\ a_events = <<>> /\ a_max_rules = 0 /\ analyzer = <<>>
    /\ a_pc = "off" /\ a_ret = <<>> /\ a_calls = 0

IdleCoverage ==
    /\ c_file = <<>> /\ c_now = 0 /\ c_window = 0
    /\ c_pc = "off" /\ c_idx = 0 /\ c_result = FALSE

IdleReload == r_env = <<>> /\ r_pc = "off" /\ r_log = <<>>

IdlePublish ==
    /\ s_rules = <<>> /\ s_pc = "off" /\ s_idx = 0 /\ s_posts = <<>> /\ s_success = 0

IdleReader ==
    /\ t_file = <<>> /\ t_now = 0 /\ t_max_events = 0 /\ t_window = 0 /\ t_pc = "off"
    /\ t_recent = <<>> /\ t_idx = 0 /\ t_events = <<>> /\ t_ret = <<>>

IdleTelemetryFile ==
    /\ f_file = <<>> /\ f_pc = "off" /\ f_engine = <<>> /\ f_events = <<>>

IdlePipeline ==
    /\ p_pc = "off" /\ cycle_count = 0 /\ p_now = 0 /\ p_metrics = <<>> /\ p_result = <<>>
    /\ detection_count = 0 /\ last_detection_time = <<>> /\ eve_analyzer = <<>>
    /\ eve_file = <<>> /\ p_events = <<>> /\ p_rules = <<>>
    /\ rules_file = <<>> /\ suricata_rules_file = <<>> /\ cycle_log = <<>>


----------------------------------------------------------------------------
(* Bounds of the model *)

MaxEvents == 2      \* longest list of freely chosen events
MaxRulesBound == 2  \* largest max_rules tried
MaxCalls == 2       \* analyze_events calls per analyzer

----------------------------------------------------------------------------
(* str helpers *)

LOWER_LETTERS ==
    <<"a", "b", "c", "d", "e", "f", "g", "h", "i", "j", "k", "l", "m",
      "n", "o", "p", "q", "r", "s", "t", "u", "v", "w", "x", "y", "z">>

UPPER_LETTERS ==
    <<"A", "B", "C", "D", "E", "F", "G", "H", "I", "J", "K", "L", "M",
      "N", "O", "P", "Q", "R", "S", "T", "U", "V", "W", "X", "Y", "Z">>

LowerChar(c) ==
    IF \E i \in DOMAIN UPPER_LETTERS : UPPER_LETTERS[i] = c
    THEN LOWER_LETTERS[CHOOSE i \in DOMAIN UPPER_LETTERS : UPPER_LETTERS[i] = c]
    ELSE c

UpperChar(c) ==
    IF \E i \in DOMAIN LOWER_LETTERS : LOWER_LETTERS[i] = c
    THEN UPPER_LETTERS[CHOOSE i \in DOMAIN LOWER_LETTERS : LOWER_LETTERS[i] = c]
    ELSE c

\* str.lower()
lower(s) == [i \in 1..Len(s) |-> LowerChar(s[i])]

\* str.upper()
upper(s) == [i \in 1..Len(s) |-> UpperChar(s[i])]

\* Python `sub in s` for two str
Contains(sub, s) ==
    \E i \in 0..(Len(s) - Len(sub)) : SubSeq(s, i + 1, i + Len(sub)) = sub

\* str.replace(old, new) for a one-character old
RECURSIVE replace(_, _, _)
replace(s, old, new) ==
    IF s = <<>> THEN <<>>
    ELSE (IF Head(s) = old THEN new ELSE <<Head(s)>>) \o replace(Tail(s), old, new)

\* dict.get(k, d)
Get(e, k, d) == IF k \in DOMAIN e THEN e[k] ELSE d

\* a mutant of DistinctInOrder: the keys come out in the order of their last
\* occurrence, latest first
RECURSIVE DistinctInOrder_latest_first(_)
DistinctInOrder_latest_first(s) ==
    IF s = <<>> THEN <<>>
    ELSE LET r == DistinctInOrder_latest_first(SubSeq(s, 1, Len(s) - 1))
             x == s[Len(s)]
         IN <<x>> \o SelectSeq(r, LAMBDA y : y # x)

\* the elements of a sequence, first occurrences only, in order (dict key order)
RECURSIVE DistinctInOrder(_)
DistinctInOrder(s) ==
    IF s = <<>> THEN <<>>
    ELSE LET r == DistinctInOrder(SubSeq(s, 1, Len(s) - 1))
             x == s[Len(s)]
         IN IF \E i \in DOMAIN r : r[i] = x THEN r ELSE Append(r, x)

\* sorted(set of int)
RECURSIVE sorted(_)
sorted(S) ==
    IF S = {} THEN <<>>
    ELSE LET m == CHOOSE x \in S : \A y \in S : x <= y
         IN <<m>> \o sorted(S \ {m})

\* ','.join(map(str, seq of int))
RECURSIVE join_ports(_)
join_ports(ps) ==
    IF ps = <<>> THEN <<>>
    ELSE IF Len(ps) = 1 THEN <<ToString(ps[1])>>
    ELSE <<ToString(ps[1]), ",">> \o join_ports(Tail(ps))

----------------------------------------------------------------------------
(* EVEAnalyzer class constants *)

MINING_POOLS ==
    { <<"p", "o", "o", "l", ".", "m", "i", "n", "e", "x", "m", "r", ".", "c", "o", "m">>,
      <<"p", "o", "o", "l", ".", "s", "u", "p", "p", "o", "r", "t", "x", "m", "r", ".", "c", "o", "m">>,
      <<"p", "o", "o", "l", ".", "h", "a", "s", "h", "v", "a", "u", "l", "t", ".", "p", "r", "o">>,
      <<"x", "m", "r", "p", "o", "o", "l", ".", "e", "u">>,
      <<"m", "o", "n", "e", "r", "o", ".", "h", "a", "s", "h", "v", "a", "u", "l", "t", ".", "p", "r", "o">>,
      <<"m", "i", "n", "e", "x", "m", "r", ".", "c", "o", "m">>,
      <<"p", "o", "o", "l", ".", "c", "r", "y", "p", "t", "o", "n", "o", "t", "e", ".", "s", "o", "c", "i", "a", "l">>,
      <<"p", "o", "o", "l", ".", "n", "i", "m", "i", "q", ".", "c", "o", "m">>,
      <<"e", "t", "h", "p", "o", "o", "l", ".", "o", "r", "g">>,
      <<"e", "t", "h", "e", "r", "m", "i", "n", "e", ".", "o", "r", "g">>,
      <<"f", "2", "p", "o", "o", "l", ".", "c", "o", "m">>,
      <<"n", "a", "n", "o", "p", "o", "o", "l", ".", "o", "r", "g">> }

MINING_USER_AGENTS ==
    << <<"x", "m", "r", "i", "g">>,
       <<"x", "m", "r", "-", "s", "t", "a", "k">>,
       <<"c", "p", "u", "m", "i", "n", "e", "r">>,
       <<"m", "i", "n", "e", "r", "d">>,
       <<"c", "c", "m", "i", "n", "e", "r">>,
       <<"c", "u", "d", "a", "m", "i", "n", "e", "r">>,
       <<"e", "t", "h", "m", "i", "n", "e", "r">>,
       <<"c", "l", "a", "y", "m", "o", "r", "e">>,
       <<"p", "h", "o", "e", "n", "i", "x", "m", "i", "n", "e", "r">>,
       <<"n", "b", "m", "i", "n", "e", "r">>,
       <<"t", "r", "e", "x">>,
       <<"l", "o", "l", "m", "i", "n", "e", "r">>,
       <<"t", "e", "a", "m", "r", "e", "d", "m", "i", "n", "e", "r">> >>

MINING_PATHS ==
    << <<"/", "a", "p", "i", "/", "v", "1", "/", "w", "o", "r", "k">>,
       <<"/", "a", "p", "i", "/", "v", "1", "/", "s", "u", "b", "m", "i", "t">>,
       <<"/", "a", "p", "i", "/", "v", "1", "/", "j", "o", "b">>,
       <<"/", "s", "t", "r", "a", "t", "u", "m">>,
       <<"/", "m", "i", "n", "i", "n", "g">>,
       <<"/", "p", "o", "o", "l">>,
       <<"/", "s", "u", "b", "m", "i", "t">>,
       <<"/", "w", "o", "r", "k">>,
       <<"/", "g", "e", "t", "w", "o", "r", "k">>,
       <<"/", "g", "e", "t", "j", "o", "b">>,
       <<"/", "l", "o", "g", "i", "n">>,
       <<"/", "s", "u", "b", "s", "c", "r", "i", "b", "e">> >>

SUSPICIOUS_PORTS == {3333, 4444, 5555, 8080, 8888, 9999, 14444, 14433}

base_sid == 2000000

HIGH_VOLUME_BYTES == 100000

CROSS_CONNECTIONS == 10

QUOTE == "\""
SEMI == ";"
BACKSLASH == "\\"

----------------------------------------------------------------------------
(* Events.  An event is a dict; the nested sub-record of its type is a dict. *)

\* event.get('http', {}).get(k, '')  and the like for 'tls'
sub_get(event, section, k, d) == Get(Get(event, section, <<>>), k, d)

\* f"{dest_port}" with the default of the calling creator
port_str(event, d) ==
    IF "dest_port" \in DOMAIN event THEN ToString(event.dest_port) ELSE d

----------------------------------------------------------------------------
(* EVEAnalyzer: indicator tests *)

\* a mutant of _is_mining_pool: the hostname must equal a pool name
_is_mining_pool_exact(hostname) == lower(hostname) \in MINING_POOLS

_is_mining_pool(hostname) ==
    LET hostname_lower == lower(hostname)
    IN \E pool \in MINING_POOLS : Contains(pool, hostname_lower)

_is_mining_user_agent(user_agent) ==
    LET user_agent_lower == lower(user_agent)
    IN \E i \in DOMAIN MINING_USER_AGENTS :
           Contains(MINING_USER_AGENTS[i], user_agent_lower)

\* a mutant of _is_mining_path: no url is a mining path
_is_mining_path_never(url) == FALSE

_is_mining_path(url) ==
    LET url_lower == lower(url)
    IN \E i \in DOMAIN MINING_PATHS : Contains(MINING_PATHS[i], url_lower)

----------------------------------------------------------------------------
(* EVEAnalyzer: rule synthesis.  Every creator returns the analyzer after    *)
(* its counter update and the rule as a list of zero (None) or one rule.     *)

Rule(sid, name, body, pattern, tag) ==
    [vendor |-> "suricata", sid |-> sid, name |-> name, body |-> body,
     pattern |-> pattern, tags |-> <<"auto-generated", "cryptojacking", tag>>,
     enabled |-> TRUE]

\* a mutant of BumpCounter: the increment is forgotten
BumpCounter_forgotten(an) == an

\* self.rule_counter += 1
BumpCounter(an) == [an EXCEPT !.rule_counter = @ + 1]

\* value.replace('"', '\\"').replace(';', '\;')
escape_content(s) ==
    replace(replace(s, QUOTE, <<BACKSLASH, QUOTE>>), SEMI, <<BACKSLASH, SEMI>>)

_create_mining_pool_rule(an, hostname, events) ==
    IF events = <<>> THEN [an |-> an, rule |-> <<>>]
    ELSE
    LET first_event == events[1]
        dest_ip == Get(first_event, "dest_ip", "any")
        dest_port == port_str(first_event, "any")
        proto == Get(first_event, "proto", "TCP")
        an1 == BumpCounter(an)
        sid == base_sid + an1.rule_counter
        rule_body ==
            <<"alert ", proto, " any any -> ", dest_ip, " ", dest_port,
              " (msg:\"Cryptojacking: Conexión a pool de minería ">>
            \o hostname
            \o <<"\"; flow:established,to_server; content:\"">>
            \o hostname
            \o <<"\"; http_host; sid:", ToString(sid), "; rev:1;)">>
    IN [an |-> an1,
        rule |-> <<Rule(sid, <<"Cryptojacking: Pool de minería ">> \o hostname,
                        rule_body, hostname, "mining-pool")>>]

\* the first agent of MINING_USER_AGENTS found in the user agent, upper-cased
miner_name_of(user_agent) ==
    LET hits == {i \in DOMAIN MINING_USER_AGENTS :
                     Contains(MINING_USER_AGENTS[i], lower(user_agent))}
    IN IF hits = {} THEN <<"Unknown">>
       ELSE upper(MINING_USER_AGENTS[CHOOSE i \in hits : \A j \in hits : i <= j])

_create_mining_user_agent_rule(an, user_agent, count) ==
    LET miner_name == miner_name_of(user_agent)
        an1 == BumpCounter(an)
        sid == base_sid + an1.rule_counter
        user_agent_escaped == escape_content(user_agent)
        rule_body ==
            <<"alert ", "http any any -> any any (msg:\"Cryptojacking: User agent de minero detectado - ">>
            \o miner_name
            \o <<"\"; flow:established,to_server; content:\"">>
            \o user_agent_escaped
            \o <<"\"; http_user_agent; sid:", ToString(sid), "; rev:1;)">>
    IN [an |-> an1,
        rule |-> <<Rule(sid, <<"Cryptojacking: Minero ">> \o miner_name \o <<" detectado">>,
                        rule_body, user_agent, "miner-detection")>>]

_create_mining_path_rule(an, url, events) ==
    IF events = <<>> THEN [an |-> an, rule |-> <<>>]
    ELSE
    LET first_event == events[1]
        proto == Get(first_event, "proto", "TCP")
        an1 == BumpCounter(an)
        sid == base_sid + an1.rule_counter
        url_escaped == escape_content(url)
        rule_body ==
            <<"alert ", proto,
              " any any -> any any (msg:\"Cryptojacking: Endpoint de minería detectado - ">>
            \o url
            \o <<"\"; flow:established,to_server; content:\"">>
            \o url_escaped
            \o <<"\"; http_uri; sid:", ToString(sid), "; rev:1;)">>
    IN [an |-> an1,
        rule |-> <<Rule(sid, <<"Cryptojacking: Endpoint de minería ">> \o url,
                        rule_body, url, "mining-endpoint")>>]

_create_high_volume_rule(an, event, total_bytes) ==
    LET dest_ip == Get(event, "dest_ip", "any")
        dest_port == port_str(event, "any")
        proto == Get(event, "proto", "TCP")
        an1 == BumpCounter(an)
        sid == base_sid + an1.rule_counter
        rule_body ==
            <<"alert ", proto, " any any -> ", dest_ip, " ", dest_port,
              " (msg:\"Cryptojacking: Tráfico de alto volumen sospechoso (",
              ToString(total_bytes),
              " bytes)\"; flow:established,to_server; threshold:type limit, track by_src, count 5, seconds 60; sid:",
              ToString(sid), "; rev:1;)">>
    IN [an |-> an1,
        rule |-> <<Rule(sid,
                        <<"Cryptojacking: Tráfico sospechoso alto volumen a ",
                          dest_ip, ":", dest_port>>,
                        rule_body, dest_ip, "high-volume")>>]

_create_dns_mining_rule(an, event, rdata) ==
    LET an1 == BumpCounter(an)
        sid == base_sid + an1.rule_counter
        rule_body ==
            <<"alert ", "dns any any -> any 53 (msg:\"Cryptojacking: Consulta DNS a pool de minería ">>
            \o rdata
            \o <<"\"; dns_query; content:\"">>
            \o rdata
            \o <<"\"; sid:", ToString(sid), "; rev:1;)">>
    IN [an |-> an1,
        rule |-> <<Rule(sid, <<"Cryptojacking: DNS a pool de minería ">> \o rdata,
                        rule_body, rdata, "dns-mining")>>]

_create_tls_mining_rule(an, event, sni) ==
    LET dest_ip == Get(event, "dest_ip", "any")
        dest_port == port_str(event, "443")
        an1 == BumpCounter(an)
        sid == base_sid + an1.rule_counter
        rule_body ==
            <<"alert ", "tls any any -> ", dest_ip, " ", dest_port,
              " (msg:\"Cryptojacking: SNI de pool de minería ">>
            \o sni
            \o <<"\"; tls_sni; content:\"">>
            \o sni
            \o <<"\"; sid:", ToString(sid), "; rev:1;)">>
    IN [an |-> an1,
        rule |-> <<Rule(sid, <<"Cryptojacking: TLS SNI a pool de minería ">> \o sni,
                        rule_body, sni, "tls-mining")>>]

_create_suspicious_ip_rule(an, ip, connection_count, ports) ==
    LET ports_str == join_ports(sorted(ports))
        an1 == BumpCounter(an)
        sid == base_sid + an1.rule_counter
        rule_body ==
            <<"alert ", "tcp any any -> ", ip,
              " any (msg:\"Cryptojacking: Múltiples conexiones sospechosas a ", ip,
              " (puertos: ">>
            \o ports_str
            \o <<")\"; flow:established,to_server; threshold:type limit, track by_src, count ",
                 ToString(connection_count), ", seconds 60; sid:", ToString(sid),
                 "; rev:1;)">>
    IN [an |-> an1,
        rule |-> <<Rule(sid,
                        <<"Cryptojacking: IP sospechosa ", ip, " con ",
                          ToString(connection_count), " conexiones">>,
                        rule_body, ip, "suspicious-ip")>>]

----------------------------------------------------------------------------
(* EVEAnalyzer: detectors.  Each takes the analyzer and returns it updated.  *)
(* rule_keys is a history field: the pattern key under which each rule of    *)
(* generated_rules was appended (the key added to seen_patterns with it).    *)

\* self.generated_rules.append(rule); self.seen_patterns.add(pattern_key)
Emit(an, rule, pattern_key) ==
    [an EXCEPT !.generated_rules = Append(@, rule),
               !.seen_patterns = @ \cup {pattern_key},
               !.rule_keys = Append(@, pattern_key)]

\* `if rule:` after a creator call
EmitMade(made, pattern_key) ==
    IF made.rule # <<>> THEN Emit(made.an, made.rule[1], pattern_key) ELSE made.an

AtCap(an, max_rules) == Len(an.generated_rules) >= max_rules

\* the values of one http field over the events, empty values dropped
http_values(http_events, k) ==
    LET all == [i \in 1..Len(http_events) |-> sub_get(http_events[i], "http", k, <<>>)]
    IN SelectSeq(all, LAMBDA v : v # <<>>)

RECURSIVE pool_loop(_, _, _, _)
pool_loop(an, hostnames, http_events, max_rules) ==
    IF hostnames = <<>> \/ AtCap(an, max_rules) THEN an
    ELSE LET hostname == Head(hostnames)
             events_list == SelectSeq(http_events,
                                LAMBDA e : sub_get(e, "http", "hostname", <<>>) = hostname)
             pattern_key == <<"pool:">> \o hostname
             an1 == IF _is_mining_pool(hostname) /\ pattern_key \notin an.seen_patterns
                    THEN EmitMade(_create_mining_pool_rule(an, hostname, events_list),
                                  pattern_key)
                    ELSE an
         IN pool_loop(an1, Tail(hostnames), http_events, max_rules)

RECURSIVE user_agent_loop(_, _, _, _)
user_agent_loop(an, agents, all_agents, max_rules) ==
    IF agents = <<>> \/ AtCap(an, max_rules) THEN an
    ELSE LET user_agent == Head(agents)
             count == Len(SelectSeq(all_agents, LAMBDA u : u = user_agent))
             pattern_key == <<"ua:">> \o lower(user_agent)
             an1 == IF _is_mining_user_agent(user_agent)
                       /\ pattern_key \notin an.seen_patterns
                    THEN EmitMade(_create_mining_user_agent_rule(an, user_agent, count),
                                  pattern_key)
                    ELSE an
         IN user_agent_loop(an1, Tail(agents), all_agents, max_rules)

RECURSIVE url_loop(_, _, _, _)
url_loop(an, urls, http_events, max_rules) ==
    IF urls = <<>> \/ AtCap(an, max_rules) THEN an
    ELSE LET url == Head(urls)
             events_list == SelectSeq(http_events,
                                LAMBDA e : sub_get(e, "http", "url", <<>>) = url)
             pattern_key == <<"url:">> \o url
             an1 == IF _is_mining_path(url) /\ pattern_key \notin an.seen_patterns
                    THEN EmitMade(_create_mining_path_rule(an, url, events_list),
                                  pattern_key)
                    ELSE an
         IN url_loop(an1, Tail(urls), http_events, max_rules)

_analyze_http_events(an, http_events, max_rules) ==
    IF http_events = <<>> THEN an
    ELSE
    LET hostname_patterns == DistinctInOrder(http_values(http_events, "hostname"))
        url_patterns == DistinctInOrder(http_values(http_events, "url"))
        lowered == LET raw == http_values(http_events, "http_user_agent")
                   IN [i \in 1..Len(raw) |-> lower(raw[i])]
        user_agents == DistinctInOrder(lowered)
        an1 == pool_loop(an, hostname_patterns, http_events, max_rules)
        an2 == user_agent_loop(an1, user_agents, lowered, max_rules)
    IN url_loop(an2, url_patterns, http_events, max_rules)

\* a mutant of high_volume_patterns: the port test is dropped
RECURSIVE high_volume_patterns_any_port(_, _)
high_volume_patterns_any_port(an, flow_events) ==
    IF flow_events = <<>> THEN <<>>
    ELSE LET found == high_volume_patterns_any_port(an, SubSeq(flow_events, 1,
                                                               Len(flow_events) - 1))
             event == flow_events[Len(flow_events)]
             total_bytes == sub_get(event, "flow", "bytes_toserver", 0)
                            + sub_get(event, "flow", "bytes_toclient", 0)
             dest_ip == Get(event, "dest_ip", "")
             dest_port == Get(event, "dest_port", 0)
             pattern_key == <<"flow:", dest_ip, ":", ToString(dest_port)>>
         IN IF total_bytes > HIGH_VOLUME_BYTES
               /\ pattern_key \notin an.seen_patterns
               /\ ~ \E i \in DOMAIN found : found[i].pattern_key = pattern_key
            THEN Append(found, [pattern_key |-> pattern_key, event |-> event,
                                total_bytes |-> total_bytes])
            ELSE found

\* first loop of _analyze_flow_events: high_volume_patterns in insertion order
RECURSIVE high_volume_patterns(_, _)
high_volume_patterns(an, flow_events) ==
    IF flow_events = <<>> THEN <<>>
    ELSE LET found == high_volume_patterns(an, SubSeq(flow_events, 1, Len(flow_events) - 1))
             event == flow_events[Len(flow_events)]
             total_bytes == sub_get(event, "flow", "bytes_toserver", 0)
                            + sub_get(event, "flow", "bytes_toclient", 0)
             dest_ip == Get(event, "dest_ip", "")
             dest_port == Get(event, "dest_port", 0)
             pattern_key == <<"flow:", dest_ip, ":", ToString(dest_port)>>
         IN IF total_bytes > HIGH_VOLUME_BYTES /\ dest_port \in SUSPICIOUS_PORTS
               /\ pattern_key \notin an.seen_patterns
               /\ ~ \E i \in DOMAIN found : found[i].pattern_key = pattern_key
            THEN Append(found, [pattern_key |-> pattern_key, event |-> event,
                                total_bytes |-> total_bytes])
            ELSE found

RECURSIVE flow_rule_loop(_, _, _)
flow_rule_loop(an, found, max_rules) ==
    IF found = <<>> \/ AtCap(an, max_rules) THEN an
    ELSE LET f == Head(found)
             an1 == EmitMade(_create_high_volume_rule(an, f.event, f.total_bytes),
                             f.pattern_key)
         IN flow_rule_loop(an1, Tail(found), max_rules)

_analyze_flow_events(an, flow_events, max_rules) ==
    IF flow_events = <<>> THEN an
    ELSE LET found == IF AtCap(an, max_rules) THEN <<>>
                      ELSE high_volume_patterns(an, flow_events)
         IN flow_rule_loop(an, found, max_rules)

\* the inner loop over the answers of one dns event: no cap test inside
RECURSIVE answers_loop(_, _, _, _)
answers_loop(st, event, answers, max_rules) ==
    IF answers = <<>> THEN st
    ELSE LET rdata == Get(Head(answers), "rdata", <<>>)
             pattern_key == <<"dns:">> \o rdata
             st1 == IF _is_mining_pool(rdata) /\ rdata \notin st.seen_domains
                       /\ pattern_key \notin st.an.seen_patterns
                    THEN LET made == _create_dns_mining_rule(st.an, event, rdata)
                         IN IF made.rule # <<>>
                            THEN [an |-> Emit(made.an, made.rule[1], pattern_key),
                                  seen_domains |-> st.seen_domains \cup {rdata}]
                            ELSE [st EXCEPT !.an = made.an]
                    ELSE st
         IN answers_loop(st1, event, Tail(answers), max_rules)

RECURSIVE dns_loop(_, _, _)
dns_loop(st, dns_events, max_rules) ==
    IF dns_events = <<>> \/ AtCap(st.an, max_rules) THEN st
    ELSE LET event == Head(dns_events)
             rrtype == sub_get(event, "dns", "rrtype", "")
             st1 == IF rrtype = "A" \/ rrtype = "AAAA"
                    THEN answers_loop(st, event, sub_get(event, "dns", "answers", <<>>),
                                      max_rules)
                    ELSE st
         IN dns_loop(st1, Tail(dns_events), max_rules)

_analyze_dns_events(an, dns_events, max_rules) ==
    IF dns_events = <<>> THEN an
    ELSE dns_loop([an |-> an, seen_domains |-> {}], dns_events, max_rules).an

\* a mutant of tls_loop: the seen_patterns test is dropped
RECURSIVE tls_loop_no_dedup(_, _, _)
tls_loop_no_dedup(an, tls_events, max_rules) ==
    IF tls_events = <<>> \/ AtCap(an, max_rules) THEN an
    ELSE LET event == Head(tls_events)
             sni == sub_get(event, "tls", "sni", <<>>)
             an1 == IF sni # <<>> /\ _is_mining_pool(sni)
                    THEN EmitMade(_create_tls_mining_rule(an, event, sni), <<"tls:">> \o sni)
                    ELSE an
         IN tls_loop_no_dedup(an1, Tail(tls_events), max_rules)

RECURSIVE tls_loop(_, _, _)
tls_loop(an, tls_events, max_rules) ==
    IF tls_events = <<>> \/ AtCap(an, max_rules) THEN an
    ELSE LET event == Head(tls_events)
             sni == sub_get(event, "tls", "sni", <<>>)
             pattern_key == <<"tls:">> \o sni
             an1 == IF sni # <<>> /\ _is_mining_pool(sni)
                       /\ pattern_key \notin an.seen_patterns
                    THEN EmitMade(_create_tls_mining_rule(an, event, sni), pattern_key)
                    ELSE an
         IN tls_loop(an1, Tail(tls_events), max_rules)

_analyze_tls_events(an, tls_events, max_rules) ==
    IF tls_events = <<>> THEN an ELSE tls_loop(an, tls_events, max_rules)

\* only prints
_analyze_alert_events(an, alert_events) == an

\* a mutant of connections: only flow events are counted
connections_flow_only(events) ==
    SelectSeq(events, LAMBDA e : /\ Get(e, "event_type", "") = "flow"
                                 /\ Get(e, "dest_ip", "") # ""
                                 /\ Get(e, "dest_port", 0) # 0)

\* events that count as a connection: `if dest_ip and dest_port`
connections(events) ==
    SelectSeq(events, LAMBDA e : Get(e, "dest_ip", "") # "" /\ Get(e, "dest_port", 0) # 0)

RECURSIVE cross_loop(_, _, _, _)
cross_loop(an, ips, conns, max_rules) ==
    IF ips = <<>> \/ AtCap(an, max_rules) THEN an
    ELSE LET ip == Head(ips)
             mine == SelectSeq(conns, LAMBDA e : e.dest_ip = ip)
             count == Len(mine)
             ip_ports == {mine[i].dest_port : i \in DOMAIN mine}
             pattern_key == <<"suspicious:", ip>>
             an1 == IF count > CROSS_CONNECTIONS /\ (ip_ports \cap SUSPICIOUS_PORTS # {})
                       /\ pattern_key \notin an.seen_patterns
                    THEN EmitMade(_create_suspicious_ip_rule(an, ip, count, ip_ports),
                                  pattern_key)
                    ELSE an
         IN cross_loop(an1, Tail(ips), conns, max_rules)

_analyze_cross_patterns(an, events, max_rules) ==
    LET conns == connections(events)
        ip_connections == DistinctInOrder([i \in 1..Len(conns) |-> conns[i].dest_ip])
    IN cross_loop(an, ip_connections, conns, max_rules)

----------------------------------------------------------------------------
(* EVEAnalyzer.analyze_events *)

\* events_by_type.get(t, [])
events_of_type(events, t) ==
    SelectSeq(events, LAMBDA e : Get(e, "event_type", "unknown") = t)

\* EVEAnalyzer.__init__
NewAnalyzer ==
    [generated_rules |-> <<>>, rule_counter |-> 0, seen_patterns |-> {},
     rule_keys |-> <<>>]

\* a mutant of reset_pass: seen_patterns is not cleared
reset_pass_keep_seen(an) ==
    [an EXCEPT !.generated_rules = <<>>, !.rule_counter = 0, !.rule_keys = <<>>]

\* a mutant of reset_pass: the sid counter is not set back to zero
reset_pass_keep_counter(an) ==
    [an EXCEPT !.generated_rules = <<>>, !.seen_patterns = {}, !.rule_keys = <<>>]

\* lines 65-78: generated_rules = [], rule_counter = 0, seen_patterns.clear()
reset_pass(an) ==
    [an EXCEPT !.generated_rules = <<>>, !.rule_counter = 0,
               !.seen_patterns = {}, !.rule_keys = <<>>]

Prefix(s, n) == SubSeq(s, 1, IF n < Len(s) THEN n ELSE Len(s))

\* a mutant of limit_rules: the final slice is missing
limit_rules_missing(an, max_rules) == an

\* lines 99-102: generated_rules = generated_rules[:max_rules]
limit_rules(an, max_rules) ==
    IF Len(an.generated_rules) > max_rules
    THEN [an EXCEPT !.generated_rules = Prefix(@, max_rules),
                    !.rule_keys = Prefix(@, max_rules)]
    ELSE an

step_flow(an, events, max_rules) ==
    IF ~AtCap(an, max_rules)
    THEN _analyze_flow_events(an, events_of_type(events, "flow"), max_rules) ELSE an

step_dns(an, events, max_rules) ==
    IF ~AtCap(an, max_rules)
    THEN _analyze_dns_events(an, events_of_type(events, "dns"), max_rules) ELSE an

step_tls(an, events, max_rules) ==
    IF ~AtCap(an, max_rules)
    THEN _analyze_tls_events(an, events_of_type(events, "tls"), max_rules) ELSE an

step_cross(an, events, max_rules) ==
    IF ~AtCap(an, max_rules) THEN _analyze_cross_patterns(an, events, max_rules) ELSE an

\* the whole call: the analyzer afterwards and the list returned
analyze_events(an, events, max_rules) ==
    IF events = <<>> THEN [an |-> an, ret |-> <<>>]
    ELSE LET a0 == reset_pass(an)
             a1 == _analyze_http_events(a0, events_of_type(events, "http"), max_rules)
             a2 == step_flow(a1, events, max_rules)
             a3 == step_dns(a2, events, max_rules)
             a4 == step_tls(a3, events, max_rules)
             a5 == _analyze_alert_events(a4, events_of_type(events, "alert"))
             a6 == step_cross(a5, events, max_rules)
             a7 == limit_rules(a6, max_rules)
         IN [an |-> a7, ret |-> a7.generated_rules]

----------------------------------------------------------------------------
(* Inputs of the analyzer: events as Suricata writes them to eve.json *)

H_POOL_QUOTED == <<"x", "m", "r", "p", "o", "o", "l", ".", "e", "u", "\"", ";">>
H_PLAIN == <<"e", "x", "a", "m", "p", "l", "e", ".", "o", "r", "g">>
UA_QUOTED == <<"X", "M", "R", "i", "g", "\"", ";">>
URL_QUOTED == <<"/", "s", "t", "r", "a", "t", "u", "m", "\"", ";">>
D_F2POOL == <<"f", "2", "p", "o", "o", "l", ".", "c", "o", "m">>
D_XMRPOOL == <<"x", "m", "r", "p", "o", "o", "l", ".", "e", "u">>

E_http_pool ==
    [event_type |-> "http", dest_ip |-> "10.0.0.5", dest_port |-> 3333, proto |-> "TCP",
     http |-> [hostname |-> H_POOL_QUOTED]]

E_http_agent ==
    [event_type |-> "http",
     http |-> [http_user_agent |-> UA_QUOTED, url |-> URL_QUOTED]]

E_http_plain ==
    [event_type |-> "http", dest_ip |-> "10.0.0.9", dest_port |-> 80, proto |-> "TCP",
     http |-> [hostname |-> H_PLAIN]]

E_flow_high ==
    [event_type |-> "flow", dest_ip |-> "10.0.0.5", dest_port |-> 3333, proto |-> "TCP",
     flow |-> [bytes_toserver |-> 90000, bytes_toclient |-> 20000]]

E_flow_low ==
    [event_type |-> "flow", dest_ip |-> "10.0.0.5", dest_port |-> 3333, proto |-> "TCP",
     flow |-> [bytes_toserver |-> 500, bytes_toclient |-> 700]]

E_dns ==
    [event_type |-> "dns", dest_ip |-> "10.0.0.1", dest_port |-> 53, proto |-> "UDP",
     dns |-> [rrtype |-> "A",
              answers |-> <<[rdata |-> D_F2POOL], [rdata |-> D_XMRPOOL],
                            [rdata |-> D_F2POOL]>>]]

E_tls ==
    [event_type |-> "tls", dest_ip |-> "10.0.0.6", dest_port |-> 443, proto |-> "TCP",
     tls |-> [sni |-> D_XMRPOOL]]

E_alert ==
    [event_type |-> "alert", dest_ip |-> "10.0.0.5", dest_port |-> 3333, proto |-> "TCP",
     alert |-> [signature |-> <<"E", "T", " ", "s", "c", "a", "n">>]]

EventPool ==
    {E_http_pool, E_http_agent, E_http_plain, E_flow_high, E_flow_low, E_dns, E_tls,
     E_alert}

Repeat(e, n) == [i \in 1..n |-> e]

\* a small flow to a port that is not in SUSPICIOUS_PORTS
E_flow_web ==
    [event_type |-> "flow", dest_ip |-> "10.0.0.9", dest_port |-> 80, proto |-> "TCP",
     flow |-> [bytes_toserver |-> 500, bytes_toclient |-> 700]]

\* many connections to one address: just at, and just over, the count of line 269
Bursts ==
    {<<>>, Repeat(E_flow_low, CROSS_CONNECTIONS), Repeat(E_flow_low, CROSS_CONNECTIONS + 1),
     Repeat(E_flow_web, CROSS_CONNECTIONS + 1)}

H_MINEXMR ==
    <<"p", "o", "o", "l", ".", "m", "i", "n", "e", "x", "m", "r",
      ".", "c", "o", "m">>

H_NANOPOOL ==
    <<"x", "m", "r", "-", "e", "u", "1", ".",
      "n", "a", "n", "o", "p", "o", "o", "l", ".", "o", "r", "g">>

\* http events that carry a hostname only
HostEvent(hostname, ip) ==
    [event_type |-> "http", dest_ip |-> ip, dest_port |-> 3333, proto |-> "TCP",
     http |-> [hostname |-> hostname]]

E_host_minexmr == HostEvent(H_MINEXMR, "10.0.0.2")

E_host_f2pool == HostEvent(D_F2POOL, "10.0.0.3")

E_host_nanopool == HostEvent(H_NANOPOOL, "10.0.0.4")

\* one pool hostname alone, and several distinct pool hostnames, with a
\* repeated one and with a hostname that is no pool in between
PoolHostLists ==
    {<<E_host_minexmr>>,
     <<E_host_minexmr, E_host_f2pool>>,
     <<E_host_f2pool, E_host_minexmr, E_host_nanopool>>,
     <<E_host_nanopool, E_http_plain, E_host_nanopool, E_host_f2pool, E_host_minexmr>>}

\* a user agent that ends with a backslash and a double quote
UA_BACKSLASH == <<"X", "M", "R", "i", "g", BACKSLASH, QUOTE>>

E_http_agent_backslash ==
    [event_type |-> "http", http |-> [http_user_agent |-> UA_BACKSLASH]]

BackslashLists == {<<E_http_agent_backslash>>, <<E_http_agent_backslash, E_tls>>}

\* flows of a given volume to a given address and port
FlowEvent(ip, port, toserver, toclient) ==
    [event_type |-> "flow", dest_ip |-> ip, dest_port |-> port, proto |-> "TCP",
     flow |-> [bytes_toserver |-> toserver, bytes_toclient |-> toclient]]

\* exactly at the threshold of line 183
E_flow_exact == FlowEvent("10.0.0.7", 4444, 60000, 40000)

\* one byte over it, to the same pair and to another port of the same address
E_flow_over == FlowEvent("10.0.0.7", 4444, 60000, 40001)

E_flow_over_8080 == FlowEvent("10.0.0.7", 8080, 60000, 40001)

\* far over it, to a port that is not in SUSPICIOUS_PORTS
E_flow_big_web == FlowEvent("10.0.0.9", 80, 900000, 100000)

FlowLists ==
    {<<E_flow_exact>>,
     <<E_flow_big_web>>,
     <<E_flow_exact, E_flow_over, E_flow_over>>,
     <<E_flow_big_web, E_flow_over_8080, E_flow_exact>>,
     <<E_flow_low, E_flow_high, E_flow_exact>>,
     <<E_flow_over, E_flow_over_8080>>}

EventLists ==
    {l \o b : l \in UNION {[1..n -> EventPool] : n \in 0..MaxEvents}, b \in Bursts}
    \cup PoolHostLists \cup BackslashLists \cup FlowLists

----------------------------------------------------------------------------
(* Specification SpecAnalyzer: analyze_events, detector by detector *)

InitAnalyzer ==
    /\ a_events \in EventLists
    /\ a_max_rules \in 0..MaxRulesBound
    /\ analyzer = NewAnalyzer
    /\ a_pc = "idle"
    /\ a_ret = <<>>
    /\ a_calls = 0
    /\ IdleCoverage /\ IdleReload /\ IdlePublish /\ IdlePipeline /\ IdleReader /\ IdleTelemetryFile

A_Start ==
    /\ a_pc = "idle"
    /\ a_calls' = a_calls + 1
    /\ IF a_events = <<>>
       THEN /\ a_ret' = <<>>
            /\ a_pc' = "returned"
            /\ UNCHANGED analyzer
       ELSE /\ analyzer' = reset_pass(analyzer)
            /\ a_pc' = "http"
            /\ UNCHANGED a_ret
    /\ UNCHANGED <<a_events, a_max_rules>>
    /\ UNCHANGED <<cvars, rvars, svars, pvars, tvars, fvars>>

A_Http ==
    /\ a_pc = "http"
    /\ analyzer' = _analyze_http_events(analyzer, events_of_type(a_events, "http"),
                                        a_max_rules)
    /\ a_pc' = "flow"
    /\ UNCHANGED <<a_events, a_max_rules, a_ret, a_calls>>
    /\ UNCHANGED <<cvars, rvars, svars, pvars, tvars, fvars>>

A_Flow ==
    /\ a_pc = "flow"
    /\ analyzer' = step_flow(analyzer, a_events, a_max_rules)
    /\ a_pc' = "dns"
    /\ UNCHANGED <<a_events, a_max_rules, a_ret, a_calls>>
    /\ UNCHANGED <<cvars, rvars, svars, pvars, tvars, fvars>>

A_Dns ==
    /\ a_pc = "dns"
    /\ analyzer' = step_dns(analyzer, a_events, a_max_rules)
    /\ a_pc' = "tls"
    /\ UNCHANGED <<a_events, a_max_rules, a_ret, a_calls>>
    /\ UNCHANGED <<cvars, rvars, svars, pvars, tvars, fvars>>

A_Tls ==
    /\ a_pc = "tls"
    /\ analyzer' = step_tls(analyzer, a_events, a_max_rules)
    /\ a_pc' = "alert"
    /\ UNCHANGED <<a_events, a_max_rules, a_ret, a_calls>>
    /\ UNCHANGED <<cvars, rvars, svars, pvars, tvars, fvars>>

A_Alert ==
    /\ a_pc = "alert"
    /\ analyzer' = _analyze_alert_events(analyzer, events_of_type(a_events, "alert"))
    /\ a_pc' = "cross"
    /\ UNCHANGED <<a_events, a_max_rules, a_ret, a_calls>>
    /\ UNCHANGED <<cvars, rvars, svars, pvars, tvars, fvars>>

A_Cross ==
    /\ a_pc = "cross"
    /\ analyzer' = step_cross(analyzer, a_events, a_max_rules)
    /\ a_pc' = "limit"
    /\ UNCHANGED <<a_events, a_max_rules, a_ret, a_calls>>
    /\ UNCHANGED <<cvars, rvars, svars, pvars, tvars, fvars>>

A_Limit ==
    /\ a_pc = "limit"
    /\ analyzer' = limit_rules(analyzer, a_max_rules)
    /\ a_ret' = analyzer'.generated_rules
    /\ a_pc' = "returned"
    /\ UNCHANGED <<a_events, a_max_rules, a_calls>>
    /\ UNCHANGED <<cvars, rvars, svars, pvars, tvars, fvars>>

\* the caller calls again, with the same list or with an empty one
A_Again ==
    /\ a_pc = "returned"
    /\ a_calls < MaxCalls
    /\ a_events # <<>>
    /\ a_events' \in {a_events, <<>>}
    /\ a_pc' = "idle"
    /\ UNCHANGED <<a_max_rules, analyzer, a_ret, a_calls>>
    /\ UNCHANGED <<cvars, rvars, svars, pvars, tvars, fvars>>

NextAnalyzer ==
    \/ A_Start
    \/ A_Http
    \/ A_Flow
    \/ A_Dns
    \/ A_Tls
    \/ A_Alert
    \/ A_Cross
    \/ A_Limit
    \/ A_Again

SpecAnalyzer == InitAnalyzer /\ [][NextAnalyzer]_vars

----------------------------------------------------------------------------
(* The telemetry file eve.json.  A file is [exists, lines]; a line is what   *)
(* json.loads makes of it: "blank" (empty after strip), "invalid" (raises    *)
(* JSONDecodeError), "number" and "array" (valid JSON that is no object; an  *)
(* array line is a whole JSON-array document written on one line), "object"  *)
(* (an event).  A timestamp value is [kind, t]: "iso" an ISO-8601 string     *)
(* without offset, "iso_tz" one with an offset or Z, "bad" a string that     *)
(* datetime.fromisoformat rejects, "epoch" a number, "null" any other JSON   *)
(* value; t is the instant in seconds.  None is <<>>, a value v is <<v>>.    *)

MaxLines == 2   \* longest telemetry file of freely chosen lines
T0 == 1000      \* the clock at the first cycle, in seconds

crypto_keywords ==
    << <<"m", "i", "n", "i", "n", "g">>,
       <<"c", "r", "y", "p", "t", "o">>,
       <<"m", "o", "n", "e", "r", "o">>,
       <<"x", "m", "r">>,
       <<"s", "t", "r", "a", "t", "u", "m">>,
       <<"p", "o", "o", "l">>,
       <<"m", "i", "n", "e", "x", "m", "r">>,
       <<"s", "u", "p", "p", "o", "r", "t", "x", "m", "r">>,
       <<"h", "a", "s", "h", "v", "a", "u", "l", "t">> >>

\* a JSON string found where the code expects a mapping
JSON_STRING == [json_type |-> "string"]

is_mapping(v) == "json_type" \notin DOMAIN v

\* lines 347-361 of check_suricata_alerts: the event's time, None when unknown
coverage_event_time(event, current_time) ==
    IF "timestamp" \notin DOMAIN event THEN <<>>
    ELSE LET ts == event.timestamp
         IN CASE ts.kind \in {"iso", "iso_tz"} -> <<ts.t>>
              [] ts.kind = "bad" -> <<current_time>>
              [] ts.kind = "epoch" -> <<ts.t>>
              [] OTHER -> <<>>

\* f"{signature} {category} {msg}".lower()
alert_text(alert_data) ==
    LET signature == Get(alert_data, "signature", <<>>)
        category == Get(alert_data, "category", <<>>)
        msg == Get(alert_data, "signature", <<>>)
    IN lower(signature \o <<" ">> \o category \o <<" ">> \o msg)

has_crypto_keyword(text) ==
    \E i \in DOMAIN crypto_keywords : Contains(crypto_keywords[i], text)

\* `if event_time and event_time >= time_threshold`
is_recent(event_time, time_threshold) ==
    event_time # <<>> /\ event_time[1] # 0 /\ event_time[1] >= time_threshold

\* one iteration of the for loop of check_suricata_alerts:
\* "continue", "true" (return True), "error" (the outer except: return False)
coverage_line(line, current_time, time_threshold) ==
    CASE line.kind \in {"blank", "invalid"} -> "continue"
      [] line.kind \in {"number", "array"} -> "error"
      [] OTHER ->
         LET event == line.value
         IN IF Get(event, "event_type", "") # "alert" THEN "continue"
            ELSE IF ~is_recent(coverage_event_time(event, current_time), time_threshold)
            THEN "continue"
            ELSE LET alert_data == Get(event, "alert", <<>>)
                 IN IF ~is_mapping(alert_data) THEN "error"
                    ELSE IF has_crypto_keyword(alert_text(alert_data)) THEN "true"
                    ELSE "continue"

RECURSIVE coverage_scan(_, _, _)
coverage_scan(lines, current_time, time_threshold) ==
    IF lines = <<>> THEN FALSE
    ELSE LET r == coverage_line(Head(lines), current_time, time_threshold)
         IN CASE r = "true" -> TRUE
              [] r = "error" -> FALSE
              [] OTHER -> coverage_scan(Tail(lines), current_time, time_threshold)

\* PipelineMonitor.check_suricata_alerts as one call
check_suricata_alerts(file, current_time, time_window_seconds) ==
    IF ~file.exists THEN FALSE
    ELSE coverage_scan(file.lines, current_time, current_time - time_window_seconds)

----------------------------------------------------------------------------
(* Telemetry lines used as inputs *)

SIG_XMR == <<"E", "T", " ", "X", "M", "R", " ", "m", "i", "n", "e", "r">>
SIG_SCAN == <<"E", "T", " ", "s", "c", "a", "n">>

Alert(sig, ts) ==
    [event_type |-> "alert", timestamp |-> ts, dest_ip |-> "10.0.0.5",
     dest_port |-> 3333, proto |-> "TCP", alert |-> [signature |-> sig]]

Obj(event) == [kind |-> "object", value |-> event]

L_blank == [kind |-> "blank"]
L_invalid == [kind |-> "invalid"]
L_number == [kind |-> "number"]

\* an alert naming XMR, 30 s old
L_alert_recent == Obj(Alert(SIG_XMR, [kind |-> "iso", t |-> T0 - 30]))
\* the same alert, exactly 120 s old
L_alert_edge == Obj(Alert(SIG_XMR, [kind |-> "epoch", t |-> T0 - 120]))
\* the same alert, 300 s old
L_alert_old == Obj(Alert(SIG_XMR, [kind |-> "iso_tz", t |-> T0 - 300]))
\* the same alert with a timestamp that does not parse
L_alert_bad_ts == Obj(Alert(SIG_XMR, [kind |-> "bad", t |-> 0]))
\* the same alert with a timestamp that is JSON null
L_alert_null_ts == Obj(Alert(SIG_XMR, [kind |-> "null", t |-> 0]))
\* a recent alert about something else
L_alert_other == Obj(Alert(SIG_SCAN, [kind |-> "iso", t |-> T0 - 30]))
\* the JSON-array encoding of the file: one line holding the whole array
L_array_recent == [kind |-> "array", value |-> <<Alert(SIG_XMR, [kind |-> "iso", t |-> T0 - 30])>>]

CoverageLines ==
    {L_blank, L_invalid, L_number, L_alert_recent, L_alert_edge, L_alert_old,
     L_alert_bad_ts, L_alert_null_ts, L_alert_other, L_array_recent}

CoverageFiles ==
    {[exists |-> FALSE, lines |-> <<>>]}
    \cup {[exists |-> TRUE, lines |-> l] :
             l \in UNION {[1..n -> CoverageLines] : n \in 0..MaxLines}}

----------------------------------------------------------------------------
(* Specification SpecCoverage: check_suricata_alerts, line by line *)

InitCoverage ==
    /\ c_file \in CoverageFiles
    /\ c_now = T0
    /\ c_window \in {60, 120}
    /\ c_pc = "start"
    /\ c_idx = 1
    /\ c_result = FALSE
    /\ IdleAnalyzer /\ IdleReload /\ IdlePublish /\ IdlePipeline /\ IdleReader /\ IdleTelemetryFile

\* line 326: the file does not exist
C_Missing ==
    /\ c_pc = "start"
    /\ ~c_file.exists
    /\ c_result' = FALSE
    /\ c_pc' = "returned"
    /\ UNCHANGED <<c_file, c_now, c_window, c_idx>>
    /\ UNCHANGED <<avars, rvars, svars, pvars, tvars, fvars>>

C_Open ==
    /\ c_pc = "start"
    /\ c_file.exists
    /\ c_pc' = "scan"
    /\ UNCHANGED <<c_file, c_now, c_window, c_idx, c_result>>
    /\ UNCHANGED <<avars, rvars, svars, pvars, tvars, fvars>>

\* one line of the loop
C_Line ==
    /\ c_pc = "scan"
    /\ c_idx <= Len(c_file.lines)
    /\ LET r == coverage_line(c_file.lines[c_idx], c_now, c_now - c_window)
       IN CASE r = "true" -> c_result' = TRUE /\ c_pc' = "returned" /\ UNCHANGED c_idx
            [] r = "error" -> c_result' = FALSE /\ c_pc' = "returned" /\ UNCHANGED c_idx
            [] OTHER -> c_idx' = c_idx + 1 /\ UNCHANGED <<c_result, c_pc>>
    /\ UNCHANGED <<c_file, c_now, c_window>>
    /\ UNCHANGED <<avars, rvars, svars, pvars, tvars, fvars>>

\* line 382: the loop ended
C_End ==
    /\ c_pc = "scan"
    /\ c_idx > Len(c_file.lines)
    /\ c_result' = FALSE
    /\ c_pc' = "returned"
    /\ UNCHANGED <<c_file, c_now, c_window, c_idx>>
    /\ UNCHANGED <<avars, rvars, svars, pvars, tvars, fvars>>

NextCoverage ==
    \/ C_Missing
    \/ C_Open
    \/ C_Line
    \/ C_End

SpecCoverage == InitCoverage /\ [][NextCoverage]_vars

----------------------------------------------------------------------------
(* PipelineMonitor._reload_suricata_rules.  The environment of one call:     *)
(*   ctl, svc  what subprocess.run does for suricatactl / systemctl: "ok" or *)
(*             the exception class it raises                                 *)
(*   procs     what psutil.process_iter yields: per process whether its name *)
(*             contains "suricata" and what os.kill(pid, SIGHUP) does        *)
(*   iter      "ok", or the exception class process_iter itself raises       *)

MaxProcs == 2   \* most processes psutil lists

RunOutcomes == {"ok", "FileNotFoundError", "TimeoutExpired", "CalledProcessError",
                "PermissionError"}

KillOutcomes == {"ok", "ProcessLookupError", "PermissionError", "AccessDenied"}

ProcKinds ==
    {[suricata |-> FALSE, kill |-> "ok"]}
    \cup {[suricata |-> TRUE, kill |-> k] : k \in KillOutcomes}

ReloadEnvs ==
    [ctl : RunOutcomes,
     procs : UNION {[1..n -> ProcKinds] : n \in 0..MaxProcs},
     iter : {"ok", "OSError"},
     svc : RunOutcomes]

\* lines 606-614: the except clauses after the suricatactl call
control_handlers == {"FileNotFoundError", "TimeoutExpired", "CalledProcessError",
                     "PermissionError", "OSError"}

\* line 627: the except clause inside the process loop
kill_handlers == {"NoSuchProcess", "AccessDenied", "ProcessLookupError"}

\* line 629: `except Exception` around the process loop
signal_handlers == {"FileNotFoundError", "TimeoutExpired", "CalledProcessError",
                    "PermissionError", "OSError", "NoSuchProcess", "AccessDenied",
                    "ProcessLookupError"}

\* lines 643-646: the except clauses after the systemctl call
service_handlers == {"FileNotFoundError", "TimeoutExpired", "CalledProcessError",
                     "PermissionError", "OSError"}

\* the process loop of lines 619-628: "ok" (signal sent, return), "none" (loop
\* ended without a signal sent) or the exception class that leaves the loop
RECURSIVE signal_loop(_)
signal_loop(procs) ==
    IF procs = <<>> THEN "none"
    ELSE LET proc == Head(procs)
         IN IF ~proc.suricata THEN signal_loop(Tail(procs))
            ELSE IF proc.kill = "ok" THEN "ok"
            ELSE IF proc.kill \in kill_handlers THEN signal_loop(Tail(procs))
            ELSE proc.kill

\* a mutant of reload_control: goes on to the next method after a success
reload_control_no_return(env) == [pc |-> "signal", outcome |-> env.ctl]

\* Method 1 (lines 594-614): the next position and the outcome logged
reload_control(env) ==
    IF env.ctl = "ok" THEN [pc |-> "returned", outcome |-> "ok"]
    ELSE IF env.ctl \in control_handlers THEN [pc |-> "signal", outcome |-> env.ctl]
    ELSE [pc |-> "raised", outcome |-> env.ctl]

\* Method 2 (lines 617-630)
reload_signal(env) ==
    LET o == IF env.iter # "ok" THEN env.iter ELSE signal_loop(env.procs)
    IN IF o = "ok" THEN [pc |-> "returned", outcome |-> "ok"]
       ELSE IF o = "none" THEN [pc |-> "service", outcome |-> "none"]
       ELSE IF o \in signal_handlers THEN [pc |-> "service", outcome |-> o]
       ELSE [pc |-> "raised", outcome |-> o]

\* Method 3 (lines 633-646)
reload_service(env) ==
    IF env.svc = "ok" THEN [pc |-> "returned", outcome |-> "ok"]
    ELSE IF env.svc \in service_handlers THEN [pc |-> "give_up", outcome |-> env.svc]
    ELSE [pc |-> "raised", outcome |-> env.svc]

\* one step of the chain from position pc
reload_step(pc, env) ==
    CASE pc = "control" -> reload_control(env)
      [] pc = "signal" -> reload_signal(env)
      [] pc = "service" -> reload_service(env)
      [] OTHER -> [pc |-> "returned", outcome |-> "manual"]

\* the whole call: the final position and the log of attempts
RECURSIVE run_reload(_, _, _)
run_reload(pc, log, env) ==
    IF pc \in {"returned", "raised"} THEN [pc |-> pc, log |-> log]
    ELSE LET s == reload_step(pc, env)
         IN run_reload(s.pc, IF pc = "give_up" THEN log
                             ELSE Append(log, [strategy |-> pc, outcome |-> s.outcome]),
                       env)

_reload_suricata_rules(env) == run_reload("control", <<>>, env)

----------------------------------------------------------------------------
(* Specification SpecReload: the reload chain, strategy by strategy *)

InitReload ==
    /\ r_env \in ReloadEnvs
    /\ r_pc = "control"
    /\ r_log = <<>>
    /\ IdleAnalyzer /\ IdleCoverage /\ IdlePublish /\ IdlePipeline /\ IdleReader /\ IdleTelemetryFile

\* Method 1
R_Control ==
    /\ r_pc = "control"
    /\ LET s == reload_step("control", r_env)
       IN /\ r_pc' = s.pc
          /\ r_log' = Append(r_log, [strategy |-> "control", outcome |-> s.outcome])
    /\ UNCHANGED r_env
    /\ UNCHANGED <<avars, cvars, svars, pvars, tvars, fvars>>

\* Method 2
R_Signal ==
    /\ r_pc = "signal"
    /\ LET s == reload_step("signal", r_env)
       IN /\ r_pc' = s.pc
          /\ r_log' = Append(r_log, [strategy |-> "signal", outcome |-> s.outcome])
    /\ UNCHANGED r_env
    /\ UNCHANGED <<avars, cvars, svars, pvars, tvars, fvars>>

\* Method 3
R_Service ==
    /\ r_pc = "service"
    /\ LET s == reload_step("service", r_env)
       IN /\ r_pc' = s.pc
          /\ r_log' = Append(r_log, [strategy |-> "service", outcome |-> s.outcome])
    /\ UNCHANGED r_env
    /\ UNCHANGED <<avars, cvars, svars, pvars, tvars, fvars>>

\* lines 648-654: every method failed; print the manual options and return
R_GiveUp ==
    /\ r_pc = "give_up"
    /\ r_pc' = "returned"
    /\ UNCHANGED <<r_env, r_log>>
    /\ UNCHANGED <<avars, cvars, svars, pvars, tvars, fvars>>

NextReload ==
    \/ R_Control
    \/ R_Signal
    \/ R_Service
    \/ R_GiveUp

SpecReload == InitReload /\ [][NextReload]_vars

----------------------------------------------------------------------------
(* PipelineMonitor.send_rules_to_backend.  What requests.post does for one   *)
(* rule: an HTTP status, or the requests exception class it raises.          *)

MaxPublishEvents == 2   \* events behind the rule lists that are published

StatusCodes == {200, 201, 204, 404, 500}

PostExceptions == {"ConnectionError", "Timeout"}

PostOutcomes == [kind : {"status"}, code : StatusCodes]
                \cup [kind : {"raise"}, exc : PostExceptions]

\* a mutant of request_exceptions: connection failures are not caught
request_exceptions_narrow == {"HTTPError"}

\* line 525: requests.exceptions.RequestException and its subclasses
request_exceptions == {"RequestException", "ConnectionError", "Timeout", "HTTPError"}

\* line 519: `response.status_code in [200, 201]`
counts_as_success(outcome) == outcome.kind = "status" /\ outcome.code \in {200, 201}

\* one iteration of the for loop (lines 510-527) on the state [pc, posts, success]
send_one(st, rule, outcome) ==
    LET posted == Append(st.posts, [rule |-> rule, outcome |-> outcome])
    IN IF outcome.kind = "raise" /\ outcome.exc \notin request_exceptions
       THEN [pc |-> "raised", posts |-> posted, success |-> st.success]
       ELSE [pc |-> "loop", posts |-> posted,
             success |-> IF counts_as_success(outcome) THEN st.success + 1
                         ELSE st.success]

\* the whole call, given the outcome of each request
RECURSIVE send_loop(_, _, _)
send_loop(st, rules, outcomes) ==
    IF rules = <<>> \/ st.pc = "raised" THEN st
    ELSE send_loop(send_one(st, Head(rules), Head(outcomes)), Tail(rules), Tail(outcomes))

send_rules_to_backend(parsed_rules, outcomes) ==
    LET st == send_loop([pc |-> "loop", posts |-> <<>>, success |-> 0],
                        parsed_rules, outcomes)
    IN [pc |-> IF st.pc = "raised" THEN "raised" ELSE "returned",
        posts |-> st.posts, success |-> st.success]

----------------------------------------------------------------------------
(* Specification SpecPublish: send_rules_to_backend, request by request *)

DEFAULT_MAX_RULES == 10

PublishRuleLists ==
    {analyze_events(NewAnalyzer, l, DEFAULT_MAX_RULES).ret :
        l \in UNION {[1..n -> {E_http_pool, E_http_agent, E_tls}] :
                        n \in 0..MaxPublishEvents}}

InitPublish ==
    /\ s_rules \in PublishRuleLists
    /\ s_pc = "start"
    /\ s_idx = 1
    /\ s_posts = <<>>
    /\ s_success = 0
    /\ IdleAnalyzer /\ IdleCoverage /\ IdleReload /\ IdlePipeline /\ IdleReader /\ IdleTelemetryFile

\* lines 502-503: nothing to send
S_Empty ==
    /\ s_pc = "start"
    /\ s_rules = <<>>
    /\ s_pc' = "returned"
    /\ UNCHANGED <<s_rules, s_idx, s_posts, s_success>>
    /\ UNCHANGED <<avars, cvars, rvars, pvars, tvars, fvars>>

S_Begin ==
    /\ s_pc = "start"
    /\ s_rules # <<>>
    /\ s_pc' = "loop"
    /\ UNCHANGED <<s_rules, s_idx, s_posts, s_success>>
    /\ UNCHANGED <<avars, cvars, rvars, pvars, tvars, fvars>>

S_Post ==
    /\ s_pc = "loop"
    /\ s_idx <= Len(s_rules)
    /\ \E outcome \in PostOutcomes :
          LET st == send_one([pc |-> "loop", posts |-> s_posts, success |-> s_success],
                             s_rules[s_idx], outcome)
          IN /\ s_pc' = st.pc
             /\ s_posts' = st.posts
             /\ s_success' = st.success
    /\ s_idx' = s_idx + 1
    /\ UNCHANGED s_rules
    /\ UNCHANGED <<avars, cvars, rvars, pvars, tvars, fvars>>

\* lines 529-530
S_Return ==
    /\ s_pc = "loop"
    /\ s_idx > Len(s_rules)
    /\ s_pc' = "returned"
    /\ UNCHANGED <<s_rules, s_idx, s_posts, s_success>>
    /\ UNCHANGED <<avars, cvars, rvars, pvars, tvars, fvars>>

NextPublish ==
    \/ S_Empty
    \/ S_Begin
    \/ S_Post
    \/ S_Return

SpecPublish == InitPublish /\ [][NextPublish]_vars

----------------------------------------------------------------------------
(* PipelineMonitor._read_all_recent_events *)

READ_MAX_EVENTS == 100

READ_WINDOW_MINUTES == 10

\* lines 221-229: [known, aware, t]; known is FALSE for event_time None, aware
\* tells a datetime that carries an offset from one that does not
reader_event_time(event) ==
    IF "timestamp" \notin DOMAIN event THEN [known |-> FALSE, aware |-> FALSE, t |-> 0]
    ELSE LET ts == event.timestamp
         IN CASE ts.kind = "iso" -> [known |-> TRUE, aware |-> FALSE, t |-> ts.t]
              [] ts.kind = "iso_tz" -> [known |-> TRUE, aware |-> TRUE, t |-> ts.t]
              [] ts.kind = "epoch" -> [known |-> TRUE, aware |-> FALSE, t |-> ts.t]
              [] OTHER -> [known |-> FALSE, aware |-> FALSE, t |-> 0]

\* one line of the loop of lines 216-236: "skip" (JSONDecodeError), "keep",
\* "drop", or "error" (an exception that reaches the outer except: the value
\* is no object, or an aware event time is compared with the naive threshold)
reader_line(line, time_threshold) ==
    CASE line.kind = "invalid" -> "skip"
      [] line.kind \in {"number", "array"} -> "error"
      [] OTHER ->
         LET event_time == reader_event_time(line.value)
         IN IF ~event_time.known THEN "keep"
            ELSE IF event_time.aware THEN "error"
            ELSE IF event_time.t >= time_threshold THEN "keep" ELSE "drop"

\* all_lines[-max_events:]
last_lines(all_lines, max_events) ==
    IF max_events = 0 \/ Len(all_lines) <= max_events THEN all_lines
    ELSE SubSeq(all_lines, Len(all_lines) - max_events + 1, Len(all_lines))

_read_all_recent_events(file, current_time, max_events, time_window_minutes) ==
    IF ~file.exists THEN <<>>
    ELSE LET time_threshold == current_time - time_window_minutes * 60
             all_lines == SelectSeq(file.lines, LAMBDA l : l.kind # "blank")
             recent == last_lines(all_lines, max_events)
             kept == SelectSeq(recent, LAMBDA l : reader_line(l, time_threshold) = "keep")
         IN IF \E i \in DOMAIN recent : reader_line(recent[i], time_threshold) = "error"
            THEN <<>>
            ELSE [i \in DOMAIN kept |-> kept[i].value]

----------------------------------------------------------------------------
(* Specification SpecReader: _read_all_recent_events, line by line *)

MaxReadEvents == 2   \* largest max_events tried

\* an event of the telemetry file with the given timestamp
Stamped(event, ts) == [k \in DOMAIN event \cup {"timestamp"} |->
                          IF k = "timestamp" THEN ts ELSE event[k]]

\* events told apart by their type, with every kind of timestamp: 30 s old,
\* 300 s old, 700 s old, with an offset, as text that does not parse, as
\* null, and absent
ReaderLines ==
    {L_invalid, L_number,
     Obj(Stamped(E_http_plain, [kind |-> "iso", t |-> T0 - 30])),
     Obj(Stamped(E_tls, [kind |-> "epoch", t |-> T0 - 300])),
     Obj(Stamped(E_flow_low, [kind |-> "iso", t |-> T0 - 700])),
     Obj(Stamped(E_dns, [kind |-> "iso_tz", t |-> T0 - 30])),
     Obj(Stamped(E_alert, [kind |-> "bad", t |-> 0])),
     Obj(Stamped(E_flow_high, [kind |-> "null", t |-> 0])),
     Obj(E_http_pool)}

ReaderFiles ==
    {[exists |-> FALSE, lines |-> <<>>]}
    \cup {[exists |-> TRUE, lines |-> l] :
             l \in UNION {[1..n -> ReaderLines] : n \in 0..MaxLines}}

reverse(s) == [i \in DOMAIN s |-> s[Len(s) + 1 - i]]

InitReader ==
    /\ t_file \in ReaderFiles
    /\ t_now = T0
    /\ t_max_events \in 0..MaxReadEvents
    /\ t_window \in {1, READ_WINDOW_MINUTES}
    /\ t_pc = "start"
    /\ t_recent = <<>>
    /\ t_idx = 0
    /\ t_events = <<>>
    /\ t_ret = <<>>
    /\ IdleAnalyzer /\ IdleCoverage /\ IdleReload /\ IdlePublish /\ IdlePipeline /\ IdleTelemetryFile

\* lines 199-200: the file does not exist
T_Missing ==
    /\ t_pc = "start"
    /\ ~t_file.exists
    /\ t_ret' = <<>>
    /\ t_pc' = "returned"
    /\ UNCHANGED <<t_file, t_now, t_max_events, t_window, t_recent, t_idx, t_events>>
    /\ UNCHANGED <<avars, cvars, rvars, svars, pvars, fvars>>

\* lines 208-216: the lines that are not blank, and the last max_events of them
T_Open ==
    /\ t_pc = "start"
    /\ t_file.exists
    /\ t_recent' = last_lines(SelectSeq(t_file.lines, LAMBDA l : l.kind # "blank"),
                              t_max_events)
    /\ t_idx' = Len(t_recent')
    /\ t_pc' = "loop"
    /\ UNCHANGED <<t_file, t_now, t_max_events, t_window, t_events, t_ret>>
    /\ UNCHANGED <<avars, cvars, rvars, svars, pvars, fvars>>

\* lines 216-236: one line of the backward loop
T_Line ==
    /\ t_pc = "loop"
    /\ t_idx >= 1
    /\ LET r == reader_line(t_recent[t_idx], t_now - t_window * 60)
       IN CASE r = "keep" -> /\ t_events' = Append(t_events, t_recent[t_idx].value)
                             /\ t_idx' = t_idx - 1
                             /\ UNCHANGED <<t_pc, t_ret>>
            [] r = "error" -> /\ t_ret' = <<>>
                              /\ t_pc' = "returned"
                              /\ UNCHANGED <<t_idx, t_events>>
            [] OTHER -> /\ t_idx' = t_idx - 1
                        /\ UNCHANGED <<t_pc, t_ret, t_events>>
    /\ UNCHANGED <<t_file, t_now, t_max_events, t_window, t_recent>>
    /\ UNCHANGED <<avars, cvars, rvars, svars, pvars, fvars>>

\* lines 238-255: events.reverse() and the return
T_Return ==
    /\ t_pc = "loop"
    /\ t_idx = 0
    /\ t_events' = reverse(t_events)
    /\ t_ret' = t_events'
    /\ t_pc' = "returned"
    /\ UNCHANGED <<t_file, t_now, t_max_events, t_window, t_recent, t_idx>>
    /\ UNCHANGED <<avars, cvars, rvars, svars, pvars, fvars>>

NextReader ==
    \/ T_Missing
    \/ T_Open
    \/ T_Line
    \/ T_Return

SpecReader == InitReader /\ [][NextReader]_vars

----------------------------------------------------------------------------
(* PipelineMonitor.filter_suricata_events *)

DEFAULT_EVENT_TYPES == {"alert", "dns", "http", "tls", "flow"}

\* lines 141-156 of filter_suricata_events: json.load of the whole document
\* succeeds when the file holds one JSON value and nothing else; otherwise the
\* lines are parsed one by one and those that do not parse are skipped.
\* Returns the values as lines, a JSON array as one line per element.
filter_parse(lines) ==
    LET present == SelectSeq(lines, LAMBDA l : l.kind # "blank")
    IN IF Len(present) = 1 /\ present[1].kind = "array"
       THEN [i \in DOMAIN present[1].value |-> Obj(present[1].value[i])]
       ELSE SelectSeq(present, LAMBDA l : l.kind # "invalid")

\* PipelineMonitor.filter_suricata_events with the default event types; a
\* value that is no object makes event.get raise, and the outer except
\* (lines 178-182) returns []
filter_suricata_events(file) ==
    IF ~file.exists THEN <<>>
    ELSE LET events == filter_parse(file.lines)
             wanted == SelectSeq(events,
                           LAMBDA l : l.kind = "object"
                                      /\ Get(l.value, "event_type", "unknown")
                                             \in DEFAULT_EVENT_TYPES)
         IN IF \E i \in DOMAIN events : events[i].kind # "object" THEN <<>>
            ELSE [i \in DOMAIN wanted |-> wanted[i].value]

----------------------------------------------------------------------------
(* PipelineMonitor._generate_synthetic_events_from_metrics, given the sample *)
(* that its own collect_system_metrics call returned                         *)

SYNTHETIC_HOSTNAME ==
    <<"p", "o", "o", "l", "-", "a", "p", "i", ".", "e", "x", "a", "m", "p", "l", "e",
      ".", "c", "o", "m">>

SYNTHETIC_URL == <<"/", "a", "p", "i", "/", "v", "1", "/", "s", "u", "b", "m", "i", "t">>

SYNTHETIC_USER_AGENT ==
    <<"M", "o", "z", "i", "l", "l", "a", "/", "5", ".", "0", " ", "(", "c", "o", "m",
      "p", "a", "t", "i", "b", "l", "e", ";", " ", "M", "i", "n", "e", "r", "B", "o",
      "t", "/", "1", ".", "0", ")">>

SYNTHETIC_FLOW_BYTES == 10000

SYNTHETIC_HTTP_BYTES == 20000

_generate_synthetic_events_from_metrics(sample, current_time) ==
    LET stamp == [kind |-> "iso", t |-> current_time]
        flow_event ==
            [timestamp |-> stamp, event_type |-> "flow", src_ip |-> "192.168.100.10",
             src_port |-> 54321, dest_ip |-> "192.168.100.30", dest_port |-> 8080,
             proto |-> "TCP", flow_id |-> 999999, app_proto |-> "http",
             flow |-> [pkts_toserver |-> 150, pkts_toclient |-> 120,
                       bytes_toserver |-> sample.bytes_sent,
                       bytes_toclient |-> sample.bytes_recv, start |-> stamp]]
        http_event ==
            [timestamp |-> stamp, event_type |-> "http", src_ip |-> "192.168.100.10",
             src_port |-> 54322, dest_ip |-> "192.168.100.30", dest_port |-> 8080,
             proto |-> "TCP",
             http |-> [hostname |-> SYNTHETIC_HOSTNAME, url |-> SYNTHETIC_URL,
                       http_user_agent |-> SYNTHETIC_USER_AGENT,
                       http_method |-> "POST", status |-> 200,
                       length |-> sample.bytes_sent],
             tx_id |-> 1]
    IN (IF sample.bytes_sent > SYNTHETIC_FLOW_BYTES \/ sample.bytes_recv > SYNTHETIC_FLOW_BYTES
        THEN <<flow_event>> ELSE <<>>)
       \o (IF sample.bytes_sent > SYNTHETIC_HTTP_BYTES THEN <<http_event>> ELSE <<>>)

----------------------------------------------------------------------------
(* PipelineMonitor.generate_rules_with_analyzer *)

\* an http event whose "http" value is no mapping: http_data.get raises
\* AttributeError inside _analyze_http_events, after the reset of lines 65-78
analysis_raises(events) ==
    \E i \in DOMAIN events :
        /\ Get(events[i], "event_type", "unknown") = "http"
        /\ ~is_mapping(Get(events[i], "http", <<>>))

\* a flow event whose "flow" value is no mapping: flow_data.get raises
\* AttributeError inside _analyze_flow_events, which lines 87-88 call while the
\* cap is not reached; the rules of the http detector are in generated_rules
\* by then
flow_analysis_raises(an, events) ==
    /\ ~AtCap(an, DEFAULT_MAX_RULES)
    /\ \E i \in DOMAIN events :
           /\ Get(events[i], "event_type", "unknown") = "flow"
           /\ ~is_mapping(Get(events[i], "flow", <<>>))

\* the analyzer after the http detector of a call
after_http(an, events) ==
    _analyze_http_events(reset_pass(an), events_of_type(events, "http"), DEFAULT_MAX_RULES)

\* a mutant of generate_rules_with_analyzer: only the first rule is handed on
generate_rules_with_analyzer_first_only(an, events) ==
    IF events = <<>> THEN [an |-> an, ret |-> <<>>]
    ELSE IF analysis_raises(events) THEN [an |-> reset_pass(an), ret |-> <<>>]
    ELSE IF flow_analysis_raises(after_http(an, events), events)
    THEN [an |-> after_http(an, events), ret |-> <<>>]
    ELSE LET r == analyze_events(an, events, DEFAULT_MAX_RULES)
         IN [an |-> r.an, ret |-> Prefix(r.ret, 1)]

\* lines 400-429: analyze_events, with every exception turned into []
generate_rules_with_analyzer(an, events) ==
    IF events = <<>> THEN [an |-> an, ret |-> <<>>]
    ELSE IF analysis_raises(events) THEN [an |-> reset_pass(an), ret |-> <<>>]
    ELSE IF flow_analysis_raises(after_http(an, events), events)
    THEN [an |-> after_http(an, events), ret |-> <<>>]
    ELSE analyze_events(an, events, DEFAULT_MAX_RULES)

----------------------------------------------------------------------------
(* Rule text and the two rule files.  A text, and a file, is the sequence of *)
(* its lines; a line is a sequence of tokens, the empty line is <<>>.        *)

\* datetime.strftime / datetime.isoformat of the clock value
format_time(t) == ToString(t)

\* EVEAnalyzer.get_rules_text
get_rules_text(an, current_time) ==
    IF an.generated_rules = <<>> THEN <<>>
    ELSE LET rule_lines(rule) ==
                 << <<"# ">> \o Get(rule, "name", <<"Regla sin nombre">>) >>
                 \o (IF Get(rule, "body", <<>>) # <<>> THEN <<rule.body>> ELSE <<>>)
                 \o << <<>> >>
             RECURSIVE all_rules(_)
             all_rules(rules) ==
                 IF rules = <<>> THEN <<>>
                 ELSE rule_lines(Head(rules)) \o all_rules(Tail(rules))
         IN << <<"# Reglas generadas automáticamente por EVE Analyzer">>,
               <<"# Generadas el: ", format_time(current_time)>>,
               <<"# Total de reglas: ", ToString(Len(an.generated_rules))>>,
               <<>> >>
            \o all_rules(an.generated_rules)

WHITESPACE == {" ", "\t", "\n", "\r"}

\* str.strip on a line: white space at either end can only come from a value
RECURSIVE strip(_)
strip(line) ==
    IF line = <<>> THEN line
    ELSE IF Head(line) \in WHITESPACE THEN strip(Tail(line))
    ELSE IF line[Len(line)] \in WHITESPACE THEN strip(SubSeq(line, 1, Len(line) - 1))
    ELSE line

\* the literal pieces of the texts above by how they start and what they hold
RULE_ACTION_HEADS == {"alert ", "drop ", "pass "}

COMMENT_HEADS ==
    {"# ", "# Reglas generadas automáticamente por EVE Analyzer", "# Generadas el: ",
     "# Total de reglas: ", "#"}

REGLA_PIECES ==
    {"# Reglas generadas automáticamente por EVE Analyzer", "# Total de reglas: ",
     "Regla sin nombre"}

REGLA == <<"r", "e", "g", "l", "a">>

NEWLINE == "\n"

\* line 556, `rules.split('\n')` on one line of the joined text: a line feed
\* that came with a value ends the line there
RECURSIVE split_line(_, _)
split_line(line, acc) ==
    IF line = <<>> THEN <<acc>>
    ELSE IF Head(line) = NEWLINE THEN <<acc>> \o split_line(Tail(line), <<>>)
    ELSE split_line(Tail(line), Append(acc, Head(line)))

RECURSIVE split_text(_)
split_text(rules) ==
    IF rules = <<>> THEN <<>>
    ELSE split_line(Head(rules), <<>>) \o split_text(Tail(rules))

RULE_ACTIONS ==
    {<<"a", "l", "e", "r", "t">>, <<"d", "r", "o", "p">>, <<"p", "a", "s", "s">>}

\* line.startswith('alert') and the like, on the characters of a value
starts_with_action(line) ==
    \E word \in RULE_ACTIONS :
        Len(line) >= Len(word) /\ SubSeq(line, 1, Len(word)) = word

\* line 559-560: the lines of the text that go to the engine rule file
is_engine_line(line) ==
    /\ line # <<>>
    /\ \/ Head(line) \in RULE_ACTION_HEADS
       \/ starts_with_action(line)
       \/ /\ Head(line) \in COMMENT_HEADS
          /\ \/ \E i \in DOMAIN line : line[i] \in REGLA_PIECES
             \/ Contains(REGLA, lower(line))

engine_rule_lines(rules) ==
    LET lines == split_text(rules)
    IN SelectSeq([i \in DOMAIN lines |-> strip(lines[i])], is_engine_line)

\* `not rules or not rules.strip()`
is_blank_text(rules) == \A i \in DOMAIN rules : strip(rules[i]) = <<>>

\* a mutant of save_rules_to_suricata_file: the reload is attempted after a
\* failed write too
save_rules_to_suricata_file_reload_anyway(file, rules, count, current_time, env) ==
    IF is_blank_text(rules) THEN [file |-> file, log |-> <<>>]
    ELSE IF env.dir = "mkdir_failed" THEN [file |-> file, log |-> <<"engine_dir_error">>]
    ELSE LET rule_lines == engine_rule_lines(rules)
             r == _reload_suricata_rules(env.reload)
             reloads == [i \in DOMAIN r.log |-> "reload_" \o r.log[i].strategy]
         IN IF rule_lines = <<>> THEN [file |-> file, log |-> <<"engine_no_rules">>]
            ELSE IF env.write = "PermissionError"
            THEN [file |-> file, log |-> <<"engine_permission_error">> \o reloads]
            ELSE IF env.write # "ok" THEN [file |-> file, log |-> <<"engine_error">> \o reloads]
            ELSE [file |-> file
                           \o << <<>>,
                                 <<"# Reglas generadas automáticamente - ",
                                   format_time(current_time)>>,
                                 <<"# Detección #", ToString(count)>> >>
                           \o rule_lines \o << <<>> >>,
                  log |-> <<"engine_append">> \o reloads]

\* what the file system and the engine do during one save_rules_to_suricata_file:
\*   dir    "exists", "created" or "mkdir_failed" for the directory of the file
\*   write  "ok" or the exception class that open/write raises
\*   reload the environment of the reload chain
\* Returns the file afterwards and the steps taken.
save_rules_to_suricata_file(file, rules, count, current_time, env) ==
    IF is_blank_text(rules) THEN [file |-> file, log |-> <<>>]
    ELSE IF env.dir = "mkdir_failed" THEN [file |-> file, log |-> <<"engine_dir_error">>]
    ELSE LET rule_lines == engine_rule_lines(rules)
         IN IF rule_lines = <<>> THEN [file |-> file, log |-> <<"engine_no_rules">>]
            ELSE IF env.write = "PermissionError"
            THEN [file |-> file, log |-> <<"engine_permission_error">>]
            ELSE IF env.write # "ok" THEN [file |-> file, log |-> <<"engine_error">>]
            ELSE LET r == _reload_suricata_rules(env.reload)
                 IN [file |-> file
                              \o << <<>>,
                                    <<"# Reglas generadas automáticamente - ",
                                      format_time(current_time)>>,
                                    <<"# Detección #", ToString(count)>> >>
                              \o rule_lines \o << <<>> >>,
                     log |-> <<"engine_append">>
                             \o [i \in DOMAIN r.log |-> "reload_" \o r.log[i].strategy]
                             \o (IF r.pc = "raised" THEN <<"engine_error">> ELSE <<>>)]

\* a mutant of save_rules_to_file: the backup log is opened with mode 'w'
save_rules_to_file_rewriting(file, rules, count, current_time, outcome) ==
    IF is_blank_text(rules) THEN [file |-> file, raised |-> FALSE, log |-> <<>>]
    ELSE IF outcome # "ok" THEN [file |-> file, raised |-> TRUE, log |-> <<"backup_error">>]
    ELSE [file |-> << <<>>,
                      <<"# Reglas generadas automáticamente - ",
                        format_time(current_time)>>,
                      <<"# Detección #", ToString(count)>>,
                      <<>> >>
                   \o rules \o << <<>> >>,
          raised |-> FALSE,
          log |-> <<"backup_append">>]

\* save_rules_to_file: outcome is "ok" or the exception class that makedirs,
\* open or write raises; nothing in the method catches it
save_rules_to_file(file, rules, count, current_time, outcome) ==
    IF is_blank_text(rules) THEN [file |-> file, raised |-> FALSE, log |-> <<>>]
    ELSE IF outcome # "ok" THEN [file |-> file, raised |-> TRUE, log |-> <<"backup_error">>]
    ELSE [file |-> file
                   \o << <<>>,
                         <<"# Reglas generadas automáticamente - ",
                           format_time(current_time)>>,
                         <<"# Detección #", ToString(count)>>,
                         <<>> >>
                   \o rules \o << <<>> >>,
          raised |-> FALSE,
          log |-> <<"backup_append">>]

----------------------------------------------------------------------------
(* PipelineMonitor.classify_state and the branch of handle_mining_detection *)

\* probabilities are in thousandths
NORMAL_BELOW == 300

\* a mutant of classify_state: the bucket is chosen by the probability alone
classify_state_by_probability(prediction) ==
    [prediction |-> prediction.prediction, probability |-> prediction.probability,
     state |-> IF prediction.probability >= NORMAL_BELOW THEN "mineria_sospechosa"
               ELSE "normal"]

classify_state(prediction) ==
    [prediction |-> prediction.prediction, probability |-> prediction.probability,
     state |-> IF prediction.prediction = 1 THEN "mineria_sospechosa"
               ELSE IF prediction.probability < NORMAL_BELOW THEN "normal"
               ELSE "actividad_legitima"]

COVERAGE_WINDOW_SECONDS == 120

\* a mutant of after_coverage: the early return of line 712 is missing
after_coverage_no_return(suricata_has_alert) == "telemetry"

\* lines 708-715: where handle_mining_detection goes after the coverage check
after_coverage(suricata_has_alert) ==
    IF suricata_has_alert THEN "summary" ELSE "telemetry"

\* a mutant of after_synthetic: the return of line 764 is missing
after_synthetic_no_return(synthetic_events) == "analyze"

\* lines 758-764: where handle_mining_detection goes after the fallback
after_synthetic(synthetic_events) ==
    IF synthetic_events = <<>> THEN "summary" ELSE "analyze"

----------------------------------------------------------------------------
(* Inputs of the pipeline *)

MaxCycles == 2   \* cycles of run() that are followed

INTERVAL_SECONDS == 10

Sample(sent, recv) ==
    [cpu_percent |-> 90, ram_percent |-> 50, bytes_sent |-> sent, bytes_recv |-> recv,
     process_count |-> 120, xmrig_detected |-> FALSE]

\* no synthetic event; a flow event only; a flow and an http event, below and
\* above the byte threshold of the flow detector
MetricsSamples ==
    {Sample(5000, 5000), Sample(15000, 5000), Sample(50000, 5000), Sample(90000, 20000)}

\* what the loaded model answers: the class and the probability (in
\* thousandths) come from two calls, predict and predict_proba
Predictions ==
    {[prediction |-> 1, probability |-> 900], [prediction |-> 1, probability |-> 200],
     [prediction |-> 0, probability |-> 100], [prediction |-> 0, probability |-> 500]}

E_http_malformed == [event_type |-> "http", http |-> JSON_STRING]

E_flow_malformed == [event_type |-> "flow", flow |-> JSON_STRING]

\* a server name with a line feed in it (the JSON escape \n, decoded)
E_tls_newline ==
    [event_type |-> "tls", dest_ip |-> "10.0.0.6", dest_port |-> 443, proto |-> "TCP",
     tls |-> [sni |-> D_XMRPOOL \o <<NEWLINE, "x">>]]

PipelineFiles ==
    {[exists |-> FALSE, lines |-> <<>>],
     [exists |-> TRUE, lines |-> <<>>],
     [exists |-> TRUE, lines |-> <<L_alert_recent>>],
     [exists |-> TRUE, lines |-> <<L_array_recent>>],
     [exists |-> TRUE, lines |-> <<L_alert_old, Obj(E_http_pool)>>],
     [exists |-> TRUE, lines |-> <<L_invalid, Obj(E_http_agent)>>],
     [exists |-> TRUE, lines |-> <<Obj(E_http_malformed), Obj(E_http_pool)>>],
     [exists |-> TRUE, lines |-> <<Obj(E_http_pool), Obj(E_flow_malformed)>>],
     [exists |-> TRUE, lines |-> <<Obj(E_tls_newline)>>]}

ENV_RELOAD_FAILS ==
    [ctl |-> "FileNotFoundError", procs |-> <<>>, iter |-> "ok", svc |-> "CalledProcessError"]

ENV_RELOAD_SIGNAL ==
    [ctl |-> "TimeoutExpired", procs |-> <<[suricata |-> TRUE, kill |-> "ok"]>>,
     iter |-> "ok", svc |-> "ok"]

EngineEnvs ==
    {[dir |-> "exists", write |-> "ok", reload |-> ENV_RELOAD_FAILS],
     [dir |-> "created", write |-> "ok", reload |-> ENV_RELOAD_SIGNAL],
     [dir |-> "exists", write |-> "PermissionError", reload |-> ENV_RELOAD_FAILS],
     [dir |-> "exists", write |-> "OSError", reload |-> ENV_RELOAD_FAILS],
     [dir |-> "mkdir_failed", write |-> "ok", reload |-> ENV_RELOAD_FAILS]}

BackupOutcomes == {"ok", "PermissionError"}

PipelinePostOutcomes ==
    {[kind |-> "status", code |-> 201], [kind |-> "status", code |-> 500],
     [kind |-> "raise", exc |-> "ConnectionError"]}

RunningPositions ==
    {"loop", "metrics", "classify", "detect", "telemetry", "analyze", "save_engine",
     "save_backup", "publish", "summary", "sleep"}

----------------------------------------------------------------------------
(* Specification SpecPipeline: PipelineMonitor.run, step by step.  An        *)
(* exception that nothing catches ends run(): p_pc becomes "crashed".        *)

InitPipeline ==
    /\ p_pc = "loop"
    /\ cycle_count = 0
    /\ p_now = T0
    /\ p_metrics = <<>>
    /\ p_result = <<>>
    /\ detection_count = 0
    /\ last_detection_time = <<>>
    /\ eve_analyzer = NewAnalyzer
    /\ eve_file = <<>>
    /\ p_events = <<>>
    /\ p_rules = <<>>
    /\ rules_file = <<>>
    /\ suricata_rules_file = <<>>
    /\ cycle_log = <<>>
    /\ IdleAnalyzer /\ IdleCoverage /\ IdleReload /\ IdlePublish /\ IdleReader /\ IdleTelemetryFile

\* lines 825-831: the next cycle starts; the locals of the last one are gone
P_CycleStart ==
    /\ p_pc = "loop"
    /\ cycle_count < MaxCycles
    /\ cycle_count' = cycle_count + 1
    /\ p_pc' = "metrics"
    /\ p_metrics' = <<>>
    /\ p_result' = <<>>
    /\ eve_file' = <<>>
    /\ p_events' = <<>>
    /\ p_rules' = <<>>
    /\ cycle_log' = <<>>
    /\ UNCHANGED <<p_now, detection_count, last_detection_time, eve_analyzer,
                   rules_file, suricata_rules_file>>
    /\ UNCHANGED <<avars, cvars, rvars, svars, tvars, fvars>>

\* line 835: collect_system_metrics returns a sample or raises (psutil)
P_Metrics ==
    /\ p_pc = "metrics"
    /\ \/ \E sample \in MetricsSamples :
             /\ p_metrics' = <<sample>>
             /\ p_pc' = "classify"
             /\ cycle_log' = Append(cycle_log, "metrics")
       \/ /\ p_pc' = "crashed"
          /\ cycle_log' = Append(cycle_log, "metrics_error")
          /\ UNCHANGED p_metrics
    /\ UNCHANGED <<cycle_count, p_now, p_result, detection_count, last_detection_time,
                   eve_analyzer, eve_file, p_events, p_rules, rules_file,
                   suricata_rules_file>>
    /\ UNCHANGED <<avars, cvars, rvars, svars, tvars, fvars>>

\* lines 846-858: classify_state returns or raises (the detector's predict)
P_Classify ==
    /\ p_pc = "classify"
    /\ \/ \E prediction \in Predictions :
             LET r == classify_state(prediction)
             IN /\ p_result' = <<r>>
                /\ p_pc' = IF r.state = "mineria_sospechosa" THEN "detect" ELSE "summary"
                /\ cycle_log' = Append(cycle_log, "classify")
       \/ /\ p_pc' = "crashed"
          /\ cycle_log' = Append(cycle_log, "classify_error")
          /\ UNCHANGED p_result
    /\ UNCHANGED <<cycle_count, p_now, p_metrics, detection_count, last_detection_time,
                   eve_analyzer, eve_file, p_events, p_rules, rules_file,
                   suricata_rules_file>>
    /\ UNCHANGED <<avars, cvars, rvars, svars, tvars, fvars>>

\* a mutant of increment_detection_count: the counter restarts at every detection
increment_detection_count_restart(count) == 1

\* line 695: self.detection_count += 1
increment_detection_count(count) == count + 1

\* lines 695-715: handle_mining_detection up to the coverage branch
P_Detect ==
    /\ p_pc = "detect"
    /\ detection_count' = increment_detection_count(detection_count)
    /\ last_detection_time' = <<p_now>>
    /\ \E file \in PipelineFiles :
          LET suricata_has_alert == check_suricata_alerts(file, p_now, COVERAGE_WINDOW_SECONDS)
          IN /\ eve_file' = file
             /\ p_pc' = after_coverage(suricata_has_alert)
             /\ cycle_log' = Append(cycle_log, IF suricata_has_alert THEN "coverage_true"
                                               ELSE "coverage_false")
    /\ UNCHANGED <<cycle_count, p_now, p_metrics, p_result, eve_analyzer, p_events,
                   p_rules, rules_file, suricata_rules_file>>
    /\ UNCHANGED <<avars, cvars, rvars, svars, tvars, fvars>>

\* lines 717-766: create the file when missing, read the recent events, fall
\* back to synthetic events (whose metrics sample may raise)
P_Telemetry ==
    /\ p_pc = "telemetry"
    /\ \E created \in BOOLEAN :
          LET file == IF ~eve_file.exists /\ created
                      THEN [exists |-> TRUE, lines |-> <<>>] ELSE eve_file
              events == _read_all_recent_events(file, p_now, READ_MAX_EVENTS,
                                                READ_WINDOW_MINUTES)
          IN /\ eve_file' = file
             /\ IF events # <<>>
                THEN /\ p_events' = events
                     /\ p_pc' = "analyze"
                     /\ cycle_log' = Append(cycle_log, "telemetry_read")
                ELSE \/ \E sample \in MetricsSamples :
                           LET synthetic_events ==
                                   _generate_synthetic_events_from_metrics(sample, p_now)
                           IN /\ p_events' = synthetic_events
                              /\ p_pc' = after_synthetic(synthetic_events)
                              /\ cycle_log' = cycle_log \o <<"telemetry_read", "synthetic">>
                     \/ /\ p_pc' = "crashed"
                        /\ cycle_log' = cycle_log \o <<"telemetry_read", "metrics_error">>
                        /\ UNCHANGED p_events
    /\ UNCHANGED <<cycle_count, p_now, p_metrics, p_result, detection_count,
                   last_detection_time, eve_analyzer, p_rules, rules_file,
                   suricata_rules_file>>
    /\ UNCHANGED <<avars, cvars, rvars, svars, tvars, fvars>>

\* a mutant of after_analysis: the return of line 779 is missing
after_analysis_no_return(parsed_rules) == "save_engine"

\* lines 776-779: `if not parsed_rules: return`
after_analysis(parsed_rules) == IF parsed_rules = <<>> THEN "summary" ELSE "save_engine"

\* lines 774-781
P_Analyze ==
    /\ p_pc = "analyze"
    /\ LET r == generate_rules_with_analyzer(eve_analyzer, p_events)
       IN /\ eve_analyzer' = r.an
          /\ p_rules' = r.ret
          /\ p_pc' = after_analysis(r.ret)
    /\ cycle_log' = Append(cycle_log, "analyze")
    /\ UNCHANGED <<cycle_count, p_now, p_metrics, p_result, detection_count,
                   last_detection_time, eve_file, p_events, rules_file,
                   suricata_rules_file>>
    /\ UNCHANGED <<avars, cvars, rvars, svars, tvars, fvars>>

\* lines 785-787: the engine rule file, and the reload that follows an append
P_SaveEngine ==
    /\ p_pc = "save_engine"
    /\ \E env \in EngineEnvs :
          LET rules_text == get_rules_text(eve_analyzer, p_now)
              s == save_rules_to_suricata_file(suricata_rules_file, rules_text,
                                               detection_count, p_now, env)
          IN /\ suricata_rules_file' = s.file
             /\ cycle_log' = cycle_log \o s.log
    /\ p_pc' = "save_backup"
    /\ UNCHANGED <<cycle_count, p_now, p_metrics, p_result, detection_count,
                   last_detection_time, eve_analyzer, eve_file, p_events, p_rules,
                   rules_file>>
    /\ UNCHANGED <<avars, cvars, rvars, svars, tvars, fvars>>

\* lines 791-792: the backup log
P_SaveBackup ==
    /\ p_pc = "save_backup"
    /\ \E outcome \in BackupOutcomes :
          LET rules_text == get_rules_text(eve_analyzer, p_now)
              s == save_rules_to_file(rules_file, rules_text, detection_count, p_now,
                                      outcome)
          IN /\ rules_file' = s.file
             /\ cycle_log' = cycle_log \o s.log
             /\ p_pc' = IF s.raised THEN "crashed" ELSE "publish"
    /\ UNCHANGED <<cycle_count, p_now, p_metrics, p_result, detection_count,
                   last_detection_time, eve_analyzer, eve_file, p_events, p_rules,
                   suricata_rules_file>>
    /\ UNCHANGED <<avars, cvars, rvars, svars, tvars, fvars>>

\* lines 797-809: one POST per rule
P_Publish ==
    /\ p_pc = "publish"
    /\ \E outcomes \in [DOMAIN p_rules -> PipelinePostOutcomes] :
          LET st == send_rules_to_backend(p_rules, outcomes)
          IN /\ cycle_log' = cycle_log \o [i \in DOMAIN st.posts |-> "post"]
             /\ p_pc' = IF st.pc = "raised" THEN "crashed" ELSE "summary"
    /\ UNCHANGED <<cycle_count, p_now, p_metrics, p_result, detection_count,
                   last_detection_time, eve_analyzer, eve_file, p_events, p_rules,
                   rules_file, suricata_rules_file>>
    /\ UNCHANGED <<avars, cvars, rvars, svars, tvars, fvars>>

\* lines 861-864
P_Summary ==
    /\ p_pc = "summary"
    /\ p_pc' = "sleep"
    /\ UNCHANGED <<cycle_count, p_now, p_metrics, p_result, detection_count,
                   last_detection_time, eve_analyzer, eve_file, p_events, p_rules,
                   rules_file, suricata_rules_file, cycle_log>>
    /\ UNCHANGED <<avars, cvars, rvars, svars, tvars, fvars>>

\* line 868: time.sleep(self.interval)
P_Sleep ==
    /\ p_pc = "sleep"
    /\ p_pc' = "loop"
    /\ p_now' = p_now + INTERVAL_SECONDS
    /\ UNCHANGED <<cycle_count, p_metrics, p_result, detection_count,
                   last_detection_time, eve_analyzer, eve_file, p_events, p_rules,
                   rules_file, suricata_rules_file, cycle_log>>
    /\ UNCHANGED <<avars, cvars, rvars, svars, tvars, fvars>>

\* lines 870-874: KeyboardInterrupt, wherever the loop is
P_Interrupt ==
    /\ p_pc \in RunningPositions
    /\ p_pc' = "stopped"
    /\ UNCHANGED <<cycle_count, p_now, p_metrics, p_result, detection_count,
                   last_detection_time, eve_analyzer, eve_file, p_events, p_rules,
                   rules_file, suricata_rules_file, cycle_log>>
    /\ UNCHANGED <<avars, cvars, rvars, svars, tvars, fvars>>

NextPipeline ==
    \/ P_CycleStart
    \/ P_Metrics
    \/ P_Classify
    \/ P_Detect
    \/ P_Telemetry
    \/ P_Analyze
    \/ P_SaveEngine
    \/ P_SaveBackup
    \/ P_Publish
    \/ P_Summary
    \/ P_Sleep
    \/ P_Interrupt

SpecPipeline == InitPipeline /\ [][NextPipeline]_vars

----------------------------------------------------------------------------
(* Specification SpecTelemetryFile: the steps of handle_mining_detection     *)
(* that touch eve.json, while the signature engine appends records to it     *)

MaxEngineRecords == 2  \* records the engine has written by the end of one handler call

\* what the engine appends: a record the reader returns, and a recent alert
EngineRecords == {Obj(E_http_pool), Obj(E_tls), L_alert_recent}

InitTelemetryFile ==
    /\ f_file \in {[exists |-> FALSE, lines |-> <<>>],
                   [exists |-> TRUE, lines |-> <<>>],
                   [exists |-> TRUE, lines |-> <<Obj(E_http_pool)>>]}
    /\ f_engine = f_file.lines
    /\ f_pc = "coverage"
    /\ f_events = <<>>
    /\ IdleAnalyzer /\ IdleCoverage /\ IdleReload /\ IdlePublish /\ IdlePipeline
    /\ IdleReader

\* the engine opens the file for appending and writes one record
F_EngineAppend ==
    /\ f_pc # "off"
    /\ Len(f_engine) < MaxEngineRecords
    /\ \E record \in EngineRecords :
          /\ f_file' = [exists |-> TRUE, lines |-> Append(f_file.lines, record)]
          /\ f_engine' = Append(f_engine, record)
    /\ UNCHANGED <<f_pc, f_events>>
    /\ UNCHANGED <<avars, cvars, rvars, svars, pvars, tvars>>

\* line 706: check_suricata_alerts, and the return of line 712
F_Coverage ==
    /\ f_pc = "coverage"
    /\ f_pc' = IF check_suricata_alerts(f_file, T0, COVERAGE_WINDOW_SECONDS)
              THEN "done" ELSE "test"
    /\ UNCHANGED <<f_file, f_engine, f_events>>
    /\ UNCHANGED <<avars, cvars, rvars, svars, pvars, tvars>>

\* line 732: if not os.path.exists(self.eve_json_path)
F_Test ==
    /\ f_pc = "test"
    /\ f_pc' = IF f_file.exists THEN "read" ELSE "create"
    /\ UNCHANGED <<f_file, f_engine, f_events>>
    /\ UNCHANGED <<avars, cvars, rvars, svars, pvars, tvars>>

\* lines 734-739: open(self.eve_json_path, 'w'), which empties the file it
\* finds; a failure is printed and the handler goes on
F_Create ==
    /\ f_pc = "create"
    /\ \E opened \in BOOLEAN :
          f_file' = IF opened THEN [exists |-> TRUE, lines |-> <<>>] ELSE f_file
    /\ f_pc' = "read"
    /\ UNCHANGED <<f_engine, f_events>>
    /\ UNCHANGED <<avars, cvars, rvars, svars, pvars, tvars>>

\* line 748: the reader; nothing after it opens eve.json
F_Read ==
    /\ f_pc = "read"
    /\ f_events' = _read_all_recent_events(f_file, T0, READ_MAX_EVENTS, READ_WINDOW_MINUTES)
    /\ f_pc' = "done"
    /\ UNCHANGED <<f_file, f_engine>>
    /\ UNCHANGED <<avars, cvars, rvars, svars, pvars, tvars>>

NextTelemetryFile ==
    \/ F_EngineAppend
    \/ F_Coverage
    \/ F_Test
    \/ F_Create
    \/ F_Read

SpecTelemetryFile == InitTelemetryFile /\ [][NextTelemetryFile]_vars

----------------------------------------------------------------------------
(* Properties of EVEAnalyzer.analyze_events, checked under SpecAnalyzer *)

\* C1: for every event list and every max_rules >= 0, one analyze_events call
\* returns a list of at most max_rules rules.
C1_AtMostMaxRules == a_pc = "returned" => Len(a_ret) <= a_max_rules

\* a call whose detectors made more rules than max_rules and that returned
\* exactly max_rules of them
C1_Truncated ==
    /\ a_pc = "returned"
    /\ a_max_rules > 0
    /\ analyzer.rule_counter > a_max_rules
    /\ Len(a_ret) = a_max_rules

HTTP_RULE_TAGS == {"mining-pool", "miner-detection", "mining-endpoint"}

\* a quote or semicolon that came from an interpolated value is one token of
\* the body; it is escaped when the token before it is a backslash
ValueCharsEscaped(body) ==
    \A i \in DOMAIN body :
        body[i] \in {QUOTE, SEMI} => (i > 1 /\ body[i - 1] = BACKSLASH)

\* C3: in a rule made from a hostname, user agent or URL that contains a double
\* quote or a semicolon, every occurrence of that character coming from the
\* value in the rule body, msg and content alike, is preceded by a backslash.
C3_ValueQuotesEscaped ==
    a_pc = "returned" =>
        \A i \in DOMAIN a_ret :
            a_ret[i].tags[3] \in HTTP_RULE_TAGS => ValueCharsEscaped(a_ret[i].body)

\* C4: within the list returned by one analyze_events call no two rules have
\* the same sid.
C4_DistinctSids ==
    a_pc = "returned" =>
        \A i, j \in DOMAIN a_ret : i # j => a_ret[i].sid # a_ret[j].sid

\* a call that returned several rules
C4_SeveralRules == a_pc = "returned" /\ Len(a_ret) >= 2

\* C5: within one analyze_events call each pattern key yields at most one rule:
\* the returned rules were appended under pairwise different pattern keys.
C5_OneRulePerPatternKey ==
    (a_pc = "returned" /\ a_ret # <<>>) =>
        /\ Len(analyzer.rule_keys) = Len(a_ret)
        /\ \A i, j \in DOMAIN a_ret :
               i # j => analyzer.rule_keys[i] # analyzer.rule_keys[j]

\* two TLS events carry the same SNI and one rule was made for it
C5_RepeatedIndicator ==
    /\ a_pc = "returned"
    /\ Len(a_ret) >= 2
    /\ Len(events_of_type(a_events, "tls")) >= 2
    /\ \E i \in DOMAIN a_ret : analyzer.rule_keys[i] = <<"tls:">> \o D_XMRPOOL

----------------------------------------------------------------------------
(* Property of check_suricata_alerts, checked under SpecCoverage *)

XMR == <<"x", "m", "r">>

\* the alert records a telemetry file holds, in either encoding of the file
alert_records(file) ==
    {file.lines[i].value : i \in {k \in DOMAIN file.lines : file.lines[k].kind = "object"}}
    \cup UNION {{file.lines[i].value[k] : k \in DOMAIN file.lines[i].value} :
                   i \in {k \in DOMAIN file.lines : file.lines[k].kind = "array"}}

is_xmr_alert(event) ==
    /\ Get(event, "event_type", "") = "alert"
    /\ is_mapping(Get(event, "alert", <<>>))
    /\ Contains(XMR, lower(Get(Get(event, "alert", <<>>), "signature", <<>>)))

has_time(event) ==
    "timestamp" \in DOMAIN event /\ event.timestamp.kind \in {"iso", "iso_tz", "epoch"}

\* C7: check_suricata_alerts(w) returns true when the telemetry file holds an
\* alert whose timestamp t satisfies now - w <= t <= now and whose signature
\* contains "xmr", and false when the only such alert has t < now - w.
C7_CoverageByWindow ==
    (c_pc = "returned" /\ c_file.exists) =>
        LET alerts == {e \in alert_records(c_file) : is_xmr_alert(e)}
            inside == {e \in alerts : /\ has_time(e)
                                      /\ c_now - c_window <= e.timestamp.t
                                      /\ e.timestamp.t <= c_now}
        IN /\ inside # {} => c_result = TRUE
           /\ (alerts # {}
               /\ \A e \in alerts : has_time(e) /\ e.timestamp.t < c_now - c_window)
              => c_result = FALSE

----------------------------------------------------------------------------
(* Property of _reload_suricata_rules, checked under SpecReload *)

RELOAD_ORDER == <<"control", "signal", "service">>

\* C8: the strategies are tried in the order control command, reload signal,
\* service manager; a later one is tried only if every earlier one failed, none
\* is tried after a success, the chain gives up only after all three, and the
\* call returns normally whatever fails.
C8_ReloadChain ==
    /\ Len(r_log) <= Len(RELOAD_ORDER)
    /\ \A i \in DOMAIN r_log : r_log[i].strategy = RELOAD_ORDER[i]
    /\ \A i \in DOMAIN r_log : i < Len(r_log) => r_log[i].outcome # "ok"
    /\ r_pc # "raised"
    /\ r_pc = "returned" =>
           /\ r_log # <<>>
           /\ r_log[Len(r_log)].outcome = "ok" \/ Len(r_log) = Len(RELOAD_ORDER)

\* the command timed out, the signal was refused, the service manager exited
\* non-zero, and the call returned
C8_AllFailed ==
    /\ r_pc = "returned"
    /\ Len(r_log) = Len(RELOAD_ORDER)
    /\ r_log[1].outcome = "TimeoutExpired"
    /\ r_log[2].outcome = "PermissionError"
    /\ r_log[3].outcome = "CalledProcessError"

----------------------------------------------------------------------------
(* Property of send_rules_to_backend, checked under SpecPublish *)

\* C10: send_rules_to_backend issues exactly one POST per rule, in list order,
\* for every rule of its list, whatever the outcome of the earlier requests.
C10_OnePostPerRule ==
    /\ Len(s_posts) <= Len(s_rules)
    /\ \A i \in DOMAIN s_posts : s_posts[i].rule = s_rules[i]
    /\ s_pc \in {"returned", "raised"} => Len(s_posts) = Len(s_rules)

\* the first request failed to connect, the second got a 500, and a third
\* rule was still posted
C10_PostsAfterFailures ==
    /\ s_pc = "returned"
    /\ Len(s_posts) >= 3
    /\ s_posts[1].outcome = [kind |-> "raise", exc |-> "ConnectionError"]
    /\ s_posts[2].outcome = [kind |-> "status", code |-> 500]

----------------------------------------------------------------------------
(* Properties of PipelineMonitor.run, checked under SpecPipeline *)

\* C2: whatever fails inside a cycle, the cycle reaches the sleep and the next
\* cycle starts; the loop ends only by the external interrupt.
C2_LoopEndsOnlyByInterrupt == p_pc \notin RunningPositions => p_pc = "stopped"

HANDLER_STEPS ==
    {"telemetry_read", "synthetic", "analyze", "engine_append", "engine_dir_error",
     "engine_no_rules", "engine_permission_error", "engine_error", "reload_control",
     "reload_signal", "reload_service", "backup_append", "backup_error", "post",
     "metrics_error"}

\* C6: in a cycle whose coverage check returned true, handle_mining_detection
\* does nothing further (no telemetry read, no analysis, no append to either
\* rule file, no reload, no request); when the check returned false the cycle
\* goes on to read the telemetry.
C6_CoveredCycleStops ==
    /\ (\E i \in DOMAIN cycle_log : cycle_log[i] = "coverage_true") =>
           /\ \A i \in DOMAIN cycle_log : cycle_log[i] \notin HANDLER_STEPS
           /\ p_pc \in {"summary", "sleep", "loop", "stopped"}
    /\ (cycle_log # <<>> /\ cycle_log[Len(cycle_log)] = "coverage_false") =>
           p_pc \in {"telemetry", "stopped"}

\* a cycle whose coverage check returned true has reached its sleep, with
\* nothing appended to either rule file
C6_CoveredCycleSleeps ==
    /\ p_pc = "sleep"
    /\ cycle_log # <<>>
    /\ cycle_log[Len(cycle_log)] = "coverage_true"
    /\ rules_file = <<>>
    /\ suricata_rules_file = <<>>

\* C9: if appending to the engine rule file fails with a permission error, the
\* same cycle still appends the rule text to the backup log and still publishes
\* every rule.
C9_BackupAndPublishAfterEngineFailure ==
    (/\ \E i \in DOMAIN cycle_log : cycle_log[i] = "engine_permission_error"
     /\ p_pc \in {"summary", "sleep", "loop", "crashed"}) =>
        /\ \E i \in DOMAIN cycle_log : cycle_log[i] = "backup_append"
        /\ Len(SelectSeq(cycle_log, LAMBDA s : s = "post")) = Len(p_rules)

----------------------------------------------------------------------------
(* Properties of the value returned by send_rules_to_backend (SpecPublish) *)

\* the rules of the list whose request was answered with a status in 200..299
answered_2xx(posts) ==
    Len(SelectSeq(posts, LAMBDA p : p.outcome.kind = "status"
                                    /\ p.outcome.code >= 200
                                    /\ p.outcome.code <= 299))

\* C11: the value returned by send_rules_to_backend equals the number of
\* rules whose POST received a 2xx status (any status from 200 to 299), and
\* lies between 0 and the number of rules.
C11_SuccessCountIs2xx ==
    s_pc = "returned" =>
        /\ s_success = answered_2xx(s_posts)
        /\ s_success >= 0
        /\ s_success <= Len(s_rules)

----------------------------------------------------------------------------
(* Properties of the cycle of PipelineMonitor.run (SpecPipeline) *)

\* handle_mining_detection was entered in the current cycle: its first step,
\* the coverage check, is in the cycle's log
handler_ran == \E i \in DOMAIN cycle_log : cycle_log[i] \in {"coverage_true", "coverage_false"}

\* C12: handle_mining_detection runs in a cycle if and only if the classifier
\* returned prediction == 1 in that cycle, whatever the probability; the state
\* bucket ("normal" or "actividad_legitima") never changes that decision.
C12_HandlerIffPredictionOne ==
    /\ handler_ran => p_result # <<>> /\ p_result[1].prediction = 1
    /\ (p_pc \in {"summary", "sleep"} /\ p_result # <<>>) =>
           (handler_ran <=> p_result[1].prediction = 1)
    /\ (cycle_log # <<>> /\ cycle_log[Len(cycle_log)] = "classify") =>
           IF p_result[1].prediction = 1 THEN p_pc \in {"detect", "stopped"}
           ELSE p_pc \in {"summary", "sleep", "loop", "stopped"}

\* the handler ran on prediction 1 although the probability was in the
\* "normal" range
C12_RanAtLowProbability ==
    /\ p_pc = "summary"
    /\ handler_ran
    /\ p_result[1].prediction = 1
    /\ p_result[1].probability < NORMAL_BELOW

\* a cycle with prediction 0 and a probability in the "actividad_legitima"
\* range went to its summary without the handler
C12_SkippedAtHighProbability ==
    /\ p_pc = "summary"
    /\ ~handler_ran
    /\ p_result[1].prediction = 0
    /\ p_result[1].probability >= NORMAL_BELOW

----------------------------------------------------------------------------
(* Properties of the rule files written by a cycle (SpecPipeline) *)

\* the literal pieces that open the comment lines of a batch
BATCH_COMMENT_HEADS ==
    COMMENT_HEADS \cup {"# Reglas generadas automáticamente - ", "# Detección #"}

\* the lines of a batch that are neither blank nor comments
non_comment_lines(batch) ==
    SelectSeq(batch, LAMBDA line : line # <<>> /\ Head(line) \notin BATCH_COMMENT_HEADS)

bodies(rules) == [i \in DOMAIN rules |-> rules[i].body]

\* what a step appended to a file that it only extended
appended(before, after) == SubSeq(after, Len(before) + 1, Len(after))

\* C13: when a cycle persists a non-empty rule set, the non-comment lines
\* appended to the engine rule file in that batch are, in the same order and
\* count, textually identical to the bodies of the rules the analyzer returned.
C13_EngineBatchIsBodies ==
    [][suricata_rules_file' # suricata_rules_file =>
          non_comment_lines(appended(suricata_rules_file, suricata_rules_file'))
              = bodies(p_rules)]_vars

\* the same property for rule sets none of whose bodies holds a line feed
C13_BatchIsBodiesWithoutLineFeed ==
    [][(/\ suricata_rules_file' # suricata_rules_file
        /\ \A i \in DOMAIN p_rules : \A j \in DOMAIN p_rules[i].body :
               p_rules[i].body[j] # NEWLINE) =>
          non_comment_lines(appended(suricata_rules_file, suricata_rules_file'))
              = bodies(p_rules)]_vars

----------------------------------------------------------------------------
(* Properties of the telemetry read of a cycle (SpecPipeline) *)

\* the same records, one object per line: every line that holds a JSON array
\* is replaced by one line per element
RECURSIVE as_json_lines(_)
as_json_lines(lines) ==
    IF lines = <<>> THEN <<>>
    ELSE (IF Head(lines).kind = "array"
          THEN [i \in DOMAIN Head(lines).value |-> Obj(Head(lines).value[i])]
          ELSE <<Head(lines)>>)
         \o as_json_lines(Tail(lines))

\* C14: the telemetry reader accepts both encodings: for a file holding one
\* JSON array of N event objects the read of a detection cycle returns the
\* same events as for a file holding the same N objects one per line.
C14_ArrayReadsAsLines ==
    (/\ p_pc \in {"analyze", "save_engine", "save_backup", "publish", "summary", "sleep"}
     /\ \E i \in DOMAIN cycle_log : cycle_log[i] = "telemetry_read") =>
        LET per_line == _read_all_recent_events(
                            [exists |-> TRUE, lines |-> as_json_lines(eve_file.lines)],
                            p_now, READ_MAX_EVENTS, READ_WINDOW_MINUTES)
        IN per_line # <<>> =>
              /\ p_events = per_line
              /\ \A i \in DOMAIN cycle_log : cycle_log[i] # "synthetic"

----------------------------------------------------------------------------
(* Properties of the detection counter (SpecPipeline) *)

\* C15: detection_count starts at 0, increases by exactly 1 in each cycle in
\* which a detection is handled and is otherwise unchanged, so it never
\* decreases and is never reset while the process runs; last_detection_time
\* is set if and only if detection_count > 0.
C15_DetectionCounter ==
    /\ detection_count = 0
    /\ [](last_detection_time # <<>> <=> detection_count > 0)
    /\ [][/\ IF handler_ran' /\ ~handler_ran
             THEN detection_count' = detection_count + 1
             ELSE detection_count' = detection_count
          /\ detection_count' >= detection_count]_vars

\* two cycles have each handled a detection
C15_TwoDetections ==
    /\ cycle_count = 2
    /\ handler_ran
    /\ detection_count = 2
    /\ last_detection_time = <<T0 + INTERVAL_SECONDS>>

----------------------------------------------------------------------------
(* Properties of the two rule files over the cycles (SpecPipeline) *)

IsPrefix(s, t) == Len(s) <= Len(t) /\ SubSeq(t, 1, Len(s)) = s

\* C16: the engine rule file and the backup log are append-only across any
\* sequence of cycles: the content of each file at any moment is a prefix of
\* its content at every later moment.
C16_FilesAppendOnly ==
    [][/\ IsPrefix(suricata_rules_file, suricata_rules_file')
       /\ IsPrefix(rules_file, rules_file')]_vars

batch_headers(file) == SelectSeq(file, LAMBDA line : line # <<>> /\ Head(line) = "# Detección #")

\* both files hold the batch of the first detection followed by the batch of
\* the second
C16_TwoBatchesInBothFiles ==
    /\ batch_headers(suricata_rules_file) = << <<"# Detección #", "1">>, <<"# Detección #", "2">> >>
    /\ batch_headers(rules_file) = << <<"# Detección #", "1">>, <<"# Detección #", "2">> >>

----------------------------------------------------------------------------
(* Properties of the mining-pool rules of analyze_events (SpecAnalyzer) *)

\* the values of a sequence at the positions where they appear first
first_appearances(s) ==
    LET at == [i \in DOMAIN s |-> [i |-> i, v |-> s[i]]]
        first == SelectSeq(at, LAMBDA p : \A j \in 1..(p.i - 1) : s[j] # p.v)
    IN [k \in DOMAIN first |-> first[k].v]

\* the distinct hostnames of the http events of a list that match a mining
\* pool, in the order of their first appearance
pool_hostnames(events) ==
    LET http_events == SelectSeq(events, LAMBDA e : Get(e, "event_type", "") = "http")
        names == [i \in DOMAIN http_events |->
                     sub_get(http_events[i], "http", "hostname", <<>>)]
    IN first_appearances(SelectSeq(names, LAMBDA h : h # <<>> /\ _is_mining_pool(h)))

has_tag(rule, tag) == \E i \in DOMAIN rule.tags : rule.tags[i] = tag

\* C17: when k distinct hostnames each match a mining pool and k > max_rules,
\* analyze_events returns exactly max_rules rules, namely those of the first
\* max_rules distinct hostnames in order of first appearance; the others are
\* discarded and no error is raised.
C17_FirstMaxRulesPoolHostnames ==
    (a_pc = "returned" /\ Len(pool_hostnames(a_events)) > a_max_rules) =>
        /\ Len(a_ret) = a_max_rules
        /\ \A i \in DOMAIN a_ret :
              /\ a_ret[i].pattern = pool_hostnames(a_events)[i]
              /\ has_tag(a_ret[i], "mining-pool")

\* three distinct pool hostnames, one of them seen twice, and a cap of two
C17_ThreePoolsCapTwo ==
    /\ a_pc = "returned"
    /\ a_max_rules = 2
    /\ Len(pool_hostnames(a_events)) = 3
    /\ Len(a_events) > 3
    /\ Len(a_ret) = 2
    /\ a_ret[1].pattern = H_NANOPOOL
    /\ a_ret[2].pattern = D_F2POOL

contains_pool_name(hostname) ==
    \E pool \in MINING_POOLS : Contains(pool, lower(hostname))

\* a list made of a single http event whose hostname contains a known
\* mining-pool name and that has neither a url nor a user agent
single_pool_event(events) ==
    /\ Len(events) = 1
    /\ Get(events[1], "event_type", "") = "http"
    /\ contains_pool_name(sub_get(events[1], "http", "hostname", <<>>))
    /\ sub_get(events[1], "http", "url", <<>>) = <<>>
    /\ sub_get(events[1], "http", "http_user_agent", <<>>) = <<>>

one_pool_rule(ret, hostname) ==
    /\ Len(ret) = 1
    /\ ret[1].pattern = hostname
    /\ has_tag(ret[1], "mining-pool")

\* C18 as stated: for an event list made of a single http event whose hostname
\* contains a known mining-pool name (no url, no user agent), analyze_events
\* returns exactly one rule, whose pattern equals that hostname and whose tags
\* include mining-pool.
C18_SinglePoolEventOneRule ==
    (a_pc = "returned" /\ single_pool_event(a_events)) =>
        one_pool_rule(a_ret, a_events[1].http.hostname)

\* C18, amended: the same for every analyzer whose max_rules is at least 1;
\* with max_rules = 0 the call returns no rule.
C18_SinglePoolEventOneRuleUnderCap ==
    (a_pc = "returned" /\ single_pool_event(a_events)) =>
        IF a_max_rules >= 1 THEN one_pool_rule(a_ret, a_events[1].http.hostname)
        ELSE a_ret = <<>>

\* the single event with hostname pool.minexmr.com gave its one rule
C18_MinexmrRule ==
    /\ a_pc = "returned"
    /\ a_events = <<E_host_minexmr>>
    /\ a_max_rules >= 1
    /\ one_pool_rule(a_ret, H_MINEXMR)

----------------------------------------------------------------------------
(* Properties of the cross-pattern detector of analyze_events (SpecAnalyzer) *)

\* every flow event of the list is at or below the byte threshold
flows_below_threshold(events) ==
    \A i \in DOMAIN events :
        Get(events[i], "event_type", "") = "flow" =>
            sub_get(events[i], "flow", "bytes_toserver", 0)
                + sub_get(events[i], "flow", "bytes_toclient", 0) <= HIGH_VOLUME_BYTES

\* the destination addresses of a list
dest_ips(events) ==
    {events[i].dest_ip : i \in {j \in DOMAIN events : "dest_ip" \in DOMAIN events[j]}}

\* the events of any type that have this destination address and a port
to_ip(events, ip) ==
    SelectSeq(events, LAMBDA e : /\ "dest_ip" \in DOMAIN e /\ e.dest_ip = ip
                                 /\ "dest_port" \in DOMAIN e /\ e.dest_port # 0)

\* more than 10 events go to the address, one of them to a suspicious port
many_suspicious_connections(events, ip) ==
    /\ Len(to_ip(events, ip)) > CROSS_CONNECTIONS
    /\ \E i \in DOMAIN to_ip(events, ip) : to_ip(events, ip)[i].dest_port \in SUSPICIOUS_PORTS

rules_tagged(ret, tag) == SelectSeq(ret, LAMBDA r : has_tag(r, tag))

suspicious_ip_rules(ret, ip) ==
    SelectSeq(rules_tagged(ret, "suspicious-ip"), LAMBDA r : r.pattern = ip)

\* C19 as stated: for events whose flows are each at or below the 100,000-byte
\* threshold, analyze_events emits a suspicious-ip rule for a destination IP if
\* and only if more than 10 events (of any type, with dest_ip and non-zero
\* dest_port) have that dest_ip and at least one of their ports is in the
\* suspicious-port set; exactly one such rule per IP, with pattern == ip, and
\* none of those events triggers the flow detector.
C19_SuspiciousIpIffManyConnections ==
    (a_pc = "returned" /\ a_events # <<>> /\ flows_below_threshold(a_events)) =>
        /\ \A ip \in dest_ips(a_events) :
              IF many_suspicious_connections(a_events, ip)
              THEN Len(suspicious_ip_rules(a_ret, ip)) = 1
              ELSE Len(suspicious_ip_rules(a_ret, ip)) = 0
        /\ \A i \in DOMAIN rules_tagged(a_ret, "suspicious-ip") :
              rules_tagged(a_ret, "suspicious-ip")[i].pattern \in dest_ips(a_events)
        /\ rules_tagged(a_ret, "high-volume") = <<>>

\* C19, amended: the same, except that an IP with more than 10 such events
\* gets no rule when the other detectors have already filled max_rules: the
\* rule is there whenever the call returned fewer than max_rules rules.
C19_SuspiciousIpIffManyConnectionsUnderCap ==
    (a_pc = "returned" /\ a_events # <<>> /\ flows_below_threshold(a_events)) =>
        /\ \A ip \in dest_ips(a_events) :
              IF many_suspicious_connections(a_events, ip)
              THEN /\ Len(suspicious_ip_rules(a_ret, ip)) <= 1
                   /\ Len(a_ret) < a_max_rules => Len(suspicious_ip_rules(a_ret, ip)) = 1
              ELSE Len(suspicious_ip_rules(a_ret, ip)) = 0
        /\ \A i \in DOMAIN rules_tagged(a_ret, "suspicious-ip") :
              rules_tagged(a_ret, "suspicious-ip")[i].pattern \in dest_ips(a_events)
        /\ rules_tagged(a_ret, "high-volume") = <<>>

\* ten small flows and one http event to the same address gave the one rule
\* of that address, next to the rule of the http event
C19_ElevenEventsOfTwoTypes ==
    /\ a_pc = "returned"
    /\ Len(a_events) = CROSS_CONNECTIONS + 1
    /\ a_events[1] = E_http_pool
    /\ flows_below_threshold(a_events)
    /\ Len(a_ret) = 2
    /\ Len(suspicious_ip_rules(a_ret, "10.0.0.5")) = 1

----------------------------------------------------------------------------
(* Properties of the synthetic fallback of a cycle (SpecPipeline) *)

\* the cycle fell back to synthetic events made from this metrics sample
synthetic_from(sample) ==
    /\ \E i \in DOMAIN cycle_log : cycle_log[i] = "synthetic"
    /\ p_events = _generate_synthetic_events_from_metrics(sample, p_now)

analysis_done == \E i \in DOMAIN cycle_log : cycle_log[i] = "analyze"

\* C20: when the telemetry reader returns no records and the metrics have
\* bytes_sent = 50000, the synthetic fallback returns at least one flow event,
\* and analyze_events applied to the synthetic events returns at least one rule.
C20_SyntheticEventsGiveARule ==
    \A sample \in MetricsSamples :
        (sample.bytes_sent = 50000 /\ synthetic_from(sample)) =>
            /\ \E i \in DOMAIN p_events : p_events[i].event_type = "flow"
            /\ p_pc = "analyze" \/ p_pc = "stopped" \/ analysis_done
            /\ analysis_done => p_rules # <<>>

\* the fallback ran on bytes_sent = 50000 with an empty telemetry file and the
\* analysis returned the rule of the synthetic http event
C20_RuleFromSyntheticEvents ==
    /\ synthetic_from(Sample(50000, 5000))
    /\ eve_file.lines = <<>>
    /\ analysis_done
    /\ Len(p_rules) = 1
    /\ p_rules[1].pattern = SYNTHETIC_URL

----------------------------------------------------------------------------
(* Properties of the event sources of a cycle (SpecPipeline) *)

logged(step) == \E i \in DOMAIN cycle_log : cycle_log[i] = step

\* the first position of a step in the log of the cycle (0 when absent)
position(step) ==
    IF logged(step) THEN CHOOSE i \in DOMAIN cycle_log :
                             /\ cycle_log[i] = step
                             /\ \A j \in 1..(i - 1) : cycle_log[j] # step
    ELSE 0

\* what the reader returns for the telemetry file of the cycle
reader_result ==
    _read_all_recent_events(eve_file, p_now, READ_MAX_EVENTS, READ_WINDOW_MINUTES)

PERSIST_STEPS ==
    {"analyze", "engine_append", "engine_dir_error", "engine_no_rules",
     "engine_permission_error", "engine_error", "reload_control", "reload_signal",
     "reload_service", "backup_append", "backup_error", "post"}

\* C21: in a detection cycle the telemetry reader is consulted first;
\* synthetic events are generated and analyzed only when the reader returned
\* no records, and when neither source yields an event the cycle ends without
\* analysis, persistence or publishing.
C21_ReaderFirstThenSynthetic ==
    p_pc # "loop" =>
        /\ (logged("synthetic") \/ logged("analyze")) =>
               /\ logged("telemetry_read")
               /\ \A i \in DOMAIN cycle_log :
                      cycle_log[i] \in PERSIST_STEPS \cup {"synthetic"} =>
                          position("telemetry_read") < i
        /\ logged("synthetic") => reader_result = <<>>
        /\ (logged("telemetry_read") /\ ~logged("synthetic") /\ ~logged("metrics_error")) =>
               reader_result # <<>> /\ p_events = reader_result
        /\ (logged("synthetic") /\ p_events = <<>>) =>
               /\ \A i \in DOMAIN cycle_log : cycle_log[i] \notin PERSIST_STEPS
               /\ p_pc \in {"summary", "sleep", "stopped"}

\* the reader returned nothing, the metrics gave no synthetic event either,
\* and the cycle reached its sleep with both rule files untouched
C21_NeitherSourceYields ==
    /\ p_pc = "sleep"
    /\ logged("synthetic")
    /\ p_events = <<>>
    /\ eve_file.exists
    /\ rules_file = <<>>
    /\ suricata_rules_file = <<>>

----------------------------------------------------------------------------
(* Properties of the engine reload of a cycle (SpecPipeline) *)

RELOAD_STEPS == {"reload_control", "reload_signal", "reload_service"}

ENGINE_FAILURES == {"engine_dir_error", "engine_no_rules", "engine_permission_error"}

occurrences(step) == Len(SelectSeq(cycle_log, LAMBDA s : s = step))

\* C22: a reload of the engine is attempted in a cycle only after that cycle's
\* append to the engine rule file completed without error; no reload is
\* attempted when the directory cannot be created, the write raises, the rule
\* text holds no rule line, or the analyzer produced no rules, and at most one
\* reload chain runs per cycle.
C22_ReloadOnlyAfterAppend ==
    /\ (\E s \in RELOAD_STEPS : logged(s)) =>
           /\ occurrences("engine_append") = 1
           /\ \A i \in DOMAIN cycle_log :
                  cycle_log[i] \in RELOAD_STEPS => position("engine_append") < i
           /\ p_rules # <<>>
           /\ \A s \in ENGINE_FAILURES : ~logged(s)
           /\ logged("engine_error") =>
                  \A s \in RELOAD_STEPS : position(s) < position("engine_error")
    /\ \A s \in RELOAD_STEPS : occurrences(s) <= 1
    /\ occurrences("reload_control") = occurrences("engine_append")
    /\ (logged("reload_signal") /\ logged("reload_service")) =>
           position("reload_signal") < position("reload_service")

\* a cycle whose write to the engine rule file raised went on to the backup
\* without any reload
C22_NoReloadAfterFailedWrite ==
    /\ p_pc = "publish"
    /\ logged("engine_error")
    /\ ~logged("engine_append")
    /\ \A s \in RELOAD_STEPS : ~logged(s)

\* a cycle appended to the engine rule file and then ran its one reload chain
C22_ReloadAfterAppend ==
    /\ p_pc = "publish"
    /\ logged("engine_append")
    /\ occurrences("reload_control") = 1
    /\ logged("reload_signal")

----------------------------------------------------------------------------
(* Properties of the readers of the telemetry file (SpecCoverage) *)

\* the file without the lines that are no event record: text that is not
\* JSON, and JSON that is not an object
without_non_records(file) ==
    [exists |-> file.exists,
     lines |-> SelectSeq(file.lines, LAMBDA l : l.kind \notin {"invalid", "number"})]

\* C23: in every reader of the telemetry file (filter_suricata_events,
\* _read_all_recent_events, check_suricata_alerts) a line that is not a valid
\* event record (unparseable JSON, or valid JSON that is not an object) is
\* skipped and does not change the outcome for the other records: the events
\* returned, or the coverage verdict, are the same as if that line were absent.
C23_NonRecordLinesSkipped ==
    c_pc = "returned" =>
        /\ c_result = check_suricata_alerts(without_non_records(c_file), c_now, c_window)
        /\ _read_all_recent_events(c_file, c_now, READ_MAX_EVENTS, READ_WINDOW_MINUTES)
              = _read_all_recent_events(without_non_records(c_file), c_now,
                                        READ_MAX_EVENTS, READ_WINDOW_MINUTES)
        /\ filter_suricata_events(c_file) = filter_suricata_events(without_non_records(c_file))

\* the two readers that a cycle uses do skip the lines that are not JSON at all
C23_UnparseableLinesSkipped ==
    c_pc = "returned" =>
        LET clean == [exists |-> c_file.exists,
                      lines |-> SelectSeq(c_file.lines, LAMBDA l : l.kind # "invalid")]
        IN /\ c_result = check_suricata_alerts(clean, c_now, c_window)
           /\ _read_all_recent_events(c_file, c_now, READ_MAX_EVENTS, READ_WINDOW_MINUTES)
                 = _read_all_recent_events(clean, c_now, READ_MAX_EVENTS,
                                           READ_WINDOW_MINUTES)

----------------------------------------------------------------------------
(* Properties of _read_all_recent_events (SpecReader) *)

\* the call agrees with the reader taken as one step
SpecReader_AsOneCall ==
    t_pc = "returned" =>
        t_ret = _read_all_recent_events(t_file, t_now, t_max_events, t_window)

\* s can be obtained from t by leaving elements out
RECURSIVE is_subsequence(_, _)
is_subsequence(s, t) ==
    IF s = <<>> THEN TRUE
    ELSE IF t = <<>> THEN FALSE
    ELSE IF Head(s) = Head(t) THEN is_subsequence(Tail(s), Tail(t))
    ELSE is_subsequence(s, Tail(t))

\* the records of a file, in file order
file_records(file) ==
    LET objects == SelectSeq(file.lines, LAMBDA l : l.kind = "object")
    IN [i \in DOMAIN objects |-> objects[i].value]

\* C24: _read_all_recent_events(max_events = N, window) returns at most N
\* events for every N >= 0, and the events it returns appear in the same
\* relative order as in the file.
C24_AtMostNInFileOrder ==
    t_pc = "returned" =>
        /\ Len(t_ret) <= t_max_events
        /\ is_subsequence(t_ret, file_records(t_file))

\* the order, and the bound for every N >= 1, do hold
C24_InFileOrderAndBoundedFromOne ==
    t_pc = "returned" =>
        /\ t_max_events >= 1 => Len(t_ret) <= t_max_events
        /\ is_subsequence(t_ret, file_records(t_file))

\* the timestamp of a record is absent, does not parse, or is at or after
\* now minus the window
in_window(event, now, window_minutes) ==
    \/ "timestamp" \notin DOMAIN event
    \/ event.timestamp.kind \notin {"iso", "iso_tz", "epoch"}
    \/ event.timestamp.t >= now - window_minutes * 60

\* C25: among the records considered by _read_all_recent_events a record is
\* returned if and only if its timestamp is absent, is unparseable, or is at
\* or after now minus the window; this holds for ISO-8601 strings with or
\* without a timezone designator and for numeric epochs, and one record's
\* timestamp never causes other in-window records to be dropped.
C25_ReturnedIffInWindow ==
    (t_pc = "returned" /\ \A i \in DOMAIN t_recent : t_recent[i].kind # "number") =>
        LET considered == SelectSeq(t_recent, LAMBDA l : l.kind = "object")
            expected == SelectSeq(considered,
                                  LAMBDA l : in_window(l.value, t_now, t_window))
        IN t_ret = [i \in DOMAIN expected |-> expected[i].value]

\* the same when no considered record carries a timezone designator
C25_ReturnedIffInWindowNaive ==
    (/\ t_pc = "returned"
     /\ \A i \in DOMAIN t_recent :
            /\ t_recent[i].kind # "number"
            /\ t_recent[i].kind = "object" =>
                   ~(/\ "timestamp" \in DOMAIN t_recent[i].value
                     /\ t_recent[i].value.timestamp.kind = "iso_tz")) =>
        LET considered == SelectSeq(t_recent, LAMBDA l : l.kind = "object")
            expected == SelectSeq(considered,
                                  LAMBDA l : in_window(l.value, t_now, t_window))
        IN t_ret = [i \in DOMAIN expected |-> expected[i].value]

----------------------------------------------------------------------------
(* Properties of the timestamps in check_suricata_alerts (SpecCoverage) *)

\* an alert record that names a keyword and whose timestamp cannot be parsed:
\* text that is not ISO-8601, or a value that is neither text nor a number
is_unparseable_mining_alert(line) ==
    /\ line.kind = "object"
    /\ Get(line.value, "event_type", "") = "alert"
    /\ "timestamp" \in DOMAIN line.value
    /\ line.value.timestamp.kind \in {"bad", "null"}
    /\ is_mapping(Get(line.value, "alert", <<>>))
    /\ \E i \in DOMAIN crypto_keywords :
           Contains(crypto_keywords[i],
                    lower(Get(line.value.alert, "signature", <<>>)
                          \o <<" ">> \o Get(line.value.alert, "category", <<>>)))

only_records(file) == \A i \in DOMAIN file.lines : file.lines[i].kind \notin {"number", "array"}

\* C26: in check_suricata_alerts an alert record whose timestamp cannot be
\* parsed (a string that is not ISO-8601, or a value that is neither a string
\* nor a number) is treated as occurring now: if its signature or category
\* contains a keyword, the result is true.
C26_UnparseableTimestampIsNow ==
    (/\ c_pc = "returned"
     /\ c_file.exists
     /\ only_records(c_file)
     /\ \E i \in DOMAIN c_file.lines : is_unparseable_mining_alert(c_file.lines[i])) =>
        c_result = TRUE

\* the same for timestamps that are text
C26_UnparseableTextIsNow ==
    (/\ c_pc = "returned"
     /\ c_file.exists
     /\ only_records(c_file)
     /\ \E i \in DOMAIN c_file.lines :
            /\ is_unparseable_mining_alert(c_file.lines[i])
            /\ c_file.lines[i].value.timestamp.kind = "bad") =>
        c_result = TRUE

----------------------------------------------------------------------------
(* Properties of analyze_events on malformed event content (SpecPipeline) *)

\* an event whose sub-record is a mapping, as the detectors expect it
is_well_formed(event) ==
    /\ Get(event, "event_type", "unknown") = "http" => is_mapping(Get(event, "http", <<>>))
    /\ Get(event, "event_type", "unknown") = "flow" => is_mapping(Get(event, "flow", <<>>))

well_formed(events) == SelectSeq(events, is_well_formed)

\* C27: analyze_events never raises for malformed event content (a sub-record
\* that is not a mapping, a byte counter that is not a number, a DNS answer
\* that is not a mapping, an unhashable port): the malformed record is skipped
\* and the rules of the other records are still returned.
C27_MalformedRecordSkipped ==
    (p_pc \in {"save_engine", "summary"} /\ analysis_done) =>
        p_rules = analyze_events(NewAnalyzer, well_formed(p_events), DEFAULT_MAX_RULES).ret

\* the same for cycles whose events are all well formed
C27_WellFormedRecordsAnalyzed ==
    (/\ p_pc \in {"save_engine", "summary"} /\ analysis_done
     /\ well_formed(p_events) = p_events) =>
        p_rules = analyze_events(NewAnalyzer, p_events, DEFAULT_MAX_RULES).ret

----------------------------------------------------------------------------
(* Properties of the rule cap inside one call (SpecAnalyzer) *)

\* C28: no detector synthesizes a rule once max_rules rules exist: at every
\* point during one call of analyze_events the number of rules synthesized so
\* far, the sid counter and the length of the working list, is at most
\* max_rules, also while the DNS detector walks several matching answers of one
\* event.
C28_NeverMoreThanMaxRules ==
    (a_pc # "idle" /\ a_events # <<>>) =>
        /\ Len(analyzer.generated_rules) <= a_max_rules
        /\ analyzer.rule_counter <= a_max_rules

\* the same for lists of events without DNS answers
C28_NeverMoreThanMaxRulesWithoutDns ==
    (a_pc # "idle" /\ a_events # <<>> /\ events_of_type(a_events, "dns") = <<>>) =>
        /\ Len(analyzer.generated_rules) <= a_max_rules
        /\ analyzer.rule_counter <= a_max_rules

----------------------------------------------------------------------------
(* Properties of the sid counter (SpecAnalyzer) *)

\* C29: the sid counter increases by exactly one per synthesized rule, so the
\* k-th rule of the returned list has sid = base_sid + k and the sids of the
\* returned list are strictly increasing.
C29_KthRuleHasSidBasePlusK ==
    /\ (a_pc \notin {"idle", "returned"}) =>
           analyzer.rule_counter = Len(analyzer.generated_rules)
    /\ (a_pc = "returned" /\ a_events # <<>>) =>
           /\ \A k \in DOMAIN a_ret : a_ret[k].sid = base_sid + k
           /\ \A j, k \in DOMAIN a_ret : j < k => a_ret[j].sid < a_ret[k].sid

\* a second call has returned two rules or more, fewer than were synthesized
C29_SecondCallSlicedList ==
    /\ a_pc = "returned"
    /\ a_calls = 2
    /\ Len(a_ret) >= 2
    /\ analyzer.rule_counter > Len(a_ret)

----------------------------------------------------------------------------
(* Properties of the content clause of a synthesized rule (SpecAnalyzer) *)

\* the literals that open the content clause in the five creators
CONTENT_OPENERS ==
    {"\"; flow:established,to_server; content:\"", "\"; dns_query; content:\"",
     "\"; tls_sni; content:\""}

CONTENT_RULE_TAGS ==
    {"mining-pool", "miner-detection", "mining-endpoint", "dns-mining", "tls-mining"}

\* the tokens between the opening literal and the literal that closes the
\* clause; the body ends with that literal, the sid and "; rev:1;)"
content_value(body) ==
    LET i == CHOOSE i \in DOMAIN body : body[i] \in CONTENT_OPENERS
    IN SubSeq(body, i + 1, Len(body) - 3)

\* read as the engine reads a quoted value: a backslash takes the next
\* character with it; a bare quote or semicolon, or a backslash left at the
\* end, closes the value before the synthesizer's quote does
RECURSIVE closes_early(_)
closes_early(s) ==
    IF s = <<>> THEN FALSE
    ELSE IF Head(s) = BACKSLASH
         THEN IF Len(s) = 1 THEN TRUE ELSE closes_early(Tail(Tail(s)))
    ELSE IF Head(s) \in {QUOTE, SEMI} THEN TRUE
    ELSE closes_early(Tail(s))

\* C30: the literal value in the content clause of every synthesized rule (pool
\* hostname, user agent, URL, DNS answer value, TLS SNI) has each double quote
\* and semicolon backslash-escaped, for any input including one with
\* backslashes, so the content field is terminated only by the synthesizer's
\* quote.
C30_ContentValueEscaped ==
    (a_pc = "returned" /\ a_events # <<>>) =>
        \A i \in DOMAIN a_ret :
            a_ret[i].tags[3] \in CONTENT_RULE_TAGS =>
                ~closes_early(content_value(a_ret[i].body))

\* the same for the user agents and URLs that hold no backslash
C30_AgentAndUrlWithoutBackslashEscaped ==
    (a_pc = "returned" /\ a_events # <<>>) =>
        \A i \in DOMAIN a_ret :
            (/\ a_ret[i].tags[3] \in {"miner-detection", "mining-endpoint"}
             /\ \A j \in DOMAIN a_ret[i].pattern : a_ret[i].pattern[j] # BACKSLASH) =>
                ~closes_early(content_value(a_ret[i].body))

\* the user agent with a backslash: the quote that follows the doubled
\* backslash closes the value
C30_BackslashBeforeQuote ==
    (a_pc = "returned" /\ a_events # <<>>) =>
        \A i \in DOMAIN a_ret :
            a_ret[i].tags[3] = "miner-detection" =>
                ~closes_early(content_value(a_ret[i].body))

----------------------------------------------------------------------------
(* Properties of the flow detector (SpecAnalyzer) *)

flow_events_of(events) == events_of_type(events, "flow")

\* the high-volume rules written for one address and port: the body names
\* them after "->"
high_volume_rules(rules, ip, port) ==
    SelectSeq(rules, LAMBDA r : /\ has_tag(r, "high-volume")
                                /\ r.body[4] = ip
                                /\ r.body[6] = ToString(port))

\* some flow event to the pair carries more than 100,000 bytes to a
\* suspicious port
qualifies(events, ip, port) ==
    \E i \in DOMAIN events :
        /\ Get(events[i], "event_type", "unknown") = "flow"
        /\ Get(events[i], "dest_ip", "") = ip
        /\ Get(events[i], "dest_port", 0) = port
        /\ events[i].flow.bytes_toserver + events[i].flow.bytes_toclient > 100000
        /\ port \in {3333, 4444, 5555, 8080, 8888, 9999, 14444, 14433}

flow_detector_done == a_pc \in {"dns", "tls", "alert", "cross", "limit", "returned"}

\* C31: while the cap is not reached, the flow detector emits a high-volume
\* rule for a pair (dest_ip, dest_port) if and only if some flow event with that
\* pair has bytes_toserver + bytes_toclient strictly greater than 100,000 and
\* dest_port in the suspicious-port set, and it emits at most one rule per pair.
C31_HighVolumeRuleIffQualifies ==
    (/\ flow_detector_done
     /\ a_events # <<>>
     /\ Len(analyzer.generated_rules) < a_max_rules) =>
        LET flows == flow_events_of(a_events)
            rules == analyzer.generated_rules
        IN /\ \A i \in DOMAIN flows :
                  LET n == Len(high_volume_rules(rules, flows[i].dest_ip,
                                                 flows[i].dest_port))
                  IN /\ n <= 1
                     /\ n = 1 <=> qualifies(a_events, flows[i].dest_ip, flows[i].dest_port)
           /\ \A k \in DOMAIN rules :
                  has_tag(rules[k], "high-volume") =>
                      \E i \in DOMAIN flows :
                          /\ rules[k].body[4] = flows[i].dest_ip
                          /\ rules[k].body[6] = ToString(flows[i].dest_port)

\* flows to three pairs, of which one is at a port that is not suspicious and
\* one is exactly at the threshold: one rule, under the cap
C31_OnePairOfThree ==
    /\ a_pc = "returned"
    /\ a_events = <<E_flow_big_web, E_flow_over_8080, E_flow_exact>>
    /\ Len(a_ret) < a_max_rules
    /\ Len(high_volume_rules(a_ret, "10.0.0.7", 8080)) = 1
    /\ Len(rules_tagged(a_ret, "high-volume")) = 1

----------------------------------------------------------------------------
(* Properties of repeated calls on one analyzer (SpecAnalyzer) *)

\* C32: deduplication is per pass only: calling analyze_events twice in a row
\* on the same analyzer with the same non-empty event list returns, the second
\* time, a list equal to the first (same length, sids, bodies and patterns);
\* rules emitted in an earlier pass never suppress rules in a later pass.
C32_SecondCallReturnsTheSame ==
    [][(a_pc = "limit" /\ a_calls >= 2 /\ a_events # <<>>) => a_ret' = a_ret]_vars

\* the second call on the same list has returned rules, and their patterns
\* were in seen_patterns when it started
C32_SecondCallWithRules ==
    /\ a_pc = "returned"
    /\ a_calls = 2
    /\ a_events # <<>>
    /\ Len(a_ret) >= 2
    /\ Cardinality(analyzer.seen_patterns) >= 2

----------------------------------------------------------------------------
(* Properties of the telemetry file next to the engine (SpecTelemetryFile) *)

\* C33: the pipeline never writes to or truncates the telemetry file's
\* existing records: with the signature engine appending records concurrently,
\* every record the engine has written remains in the file after any step of
\* handle_mining_detection, including the step that creates the file when it
\* is found missing.
C33_EngineRecordsRemain ==
    f_pc # "off" => f_file.lines = f_engine

\* every step other than the creation of the file leaves the records in place
C33_OtherStepsKeepRecords ==
    [][f_pc # "create" => IsPrefix(f_file.lines, f_file'.lines)]_vars

\* up to the creation of the file every record of the engine is in it
C33_NothingLostBeforeCreate ==
    f_pc \in {"coverage", "test", "create"} => f_file.lines = f_engine

----------------------------------------------------------------------------
(* Properties of the metrics behind the synthetic events (SpecPipeline) *)

\* the synthetic events carry the byte counters of this sample and were made
\* by comparing them with the thresholds of lines 273 and 294
made_from_counters(events, sample) ==
    LET flows == events_of_type(events, "flow")
        https == events_of_type(events, "http")
    IN /\ flows # <<>> <=> (sample.bytes_sent > 10000 \/ sample.bytes_recv > 10000)
       /\ https # <<>> <=> sample.bytes_sent > 20000
       /\ \A i \in DOMAIN flows :
              /\ flows[i].flow.bytes_toserver = sample.bytes_sent
              /\ flows[i].flow.bytes_toclient = sample.bytes_recv
       /\ \A i \in DOMAIN https : https[i].http.length = sample.bytes_sent

\* C34: the synthetic events of a cycle are derived from the same metrics
\* snapshot that the classifier judged in that cycle: the byte counters compared
\* with the thresholds and copied into the synthetic flow/http events equal the
\* bytes_sent and bytes_recv of the snapshot passed to predict.
C34_SyntheticFromJudgedSnapshot ==
    (logged("synthetic") /\ p_metrics # <<>>) =>
        made_from_counters(p_events, p_metrics[1])

\* the synthetic events of a cycle are made from the counters of one sample
C34_SyntheticFromOneSample ==
    logged("synthetic") =>
        \E sample \in MetricsSamples : made_from_counters(p_events, sample)

----------------------------------------------------------------------------
(* Properties of the sids in the engine rule file (SpecPipeline) *)

\* the rule lines of the engine rule file: they end with the sid and "; rev:1;)"
sid_lines(file) ==
    SelectSeq(file, LAMBDA line : Len(line) >= 2 /\ line[Len(line)] = "; rev:1;)")

sid_of(line) == line[Len(line) - 1]

\* C35: over any sequence of detection cycles of one process, no two rule
\* lines appended to the engine rule file carry the same sid: a sid used for a
\* rule in one cycle is not assigned to a different rule in a later cycle.
C35_EngineFileSidsDistinct ==
    LET lines == sid_lines(suricata_rules_file)
    IN \A i, j \in DOMAIN lines : i # j => sid_of(lines[i]) # sid_of(lines[j])

\* within the batch of one cycle the sids are distinct
C35_BatchSidsDistinct ==
    [][suricata_rules_file' # suricata_rules_file =>
          LET lines == sid_lines(appended(suricata_rules_file, suricata_rules_file'))
          IN \A i, j \in DOMAIN lines : i # j => sid_of(lines[i]) # sid_of(lines[j])]_vars

----------------------------------------------------------------------------
(* Properties of get_rules_text after a call (SpecAnalyzer) *)

\* the text that renders a list of rules
rendering(rules) == get_rules_text([NewAnalyzer EXCEPT !.generated_rules = rules], T0)

\* C36: after any sequence of analyze_events calls on one analyzer,
\* get_rules_text renders exactly the rules returned by the most recent call;
\* in particular after a call with an empty event list (which returns no rules)
\* get_rules_text returns the empty string.
C36_TextOfMostRecentCall ==
    a_pc = "returned" => get_rules_text(analyzer, T0) = rendering(a_ret)

\* the same after a call with a non-empty event list
C36_TextOfCallWithEvents ==
    (a_pc = "returned" /\ a_events # <<>>) =>
        get_rules_text(analyzer, T0) = rendering(a_ret)

----------------------------------------------------------------------------
(* Properties of the rules published in a cycle (SpecPipeline) *)

\* the rule bodies in the text that get_rules_text renders for the two files
rendered_bodies == non_comment_lines(get_rules_text(eve_analyzer, p_now))

\* C37: in every cycle that reaches publishing, the rules offered to the
\* backend are exactly the rules whose bodies were rendered for the engine rule
\* file and the backup log in that cycle: same rules, same order, none added
\* and none omitted.
C37_PublishedAreRendered ==
    p_pc = "publish" =>
        /\ p_rules = eve_analyzer.generated_rules
        /\ bodies(p_rules) = rendered_bodies

\* a cycle that wrote two rules or more to both files is about to publish
C37_PublishingSeveralRules ==
    /\ p_pc = "publish"
    /\ Len(p_rules) >= 2
    /\ logged("engine_append")
    /\ logged("backup_append")

----------------------------------------------------------------------------
(* Properties of a cycle whose analysis gave no rules (SpecPipeline) *)

\* the steps that write a rule file, reload the engine or call the backend
OUTPUT_STEPS ==
    {"engine_append", "backup_append", "reload_control", "reload_signal",
     "reload_service", "post"}

\* C38: in a cycle where the analyzer returns no rules (no indicator matched,
\* or the analyzer failed), the engine rule file and the backup log are left
\* unchanged, no reload is attempted and no request is sent to the backend.
C38_NoRulesNoOutput ==
    [][(analysis_done' /\ p_rules' = <<>>) =>
          /\ suricata_rules_file' = suricata_rules_file
          /\ rules_file' = rules_file
          /\ \A i \in DOMAIN cycle_log' : cycle_log'[i] \notin OUTPUT_STEPS]_vars

\* the analyzer failed in the flow detector, after the http detector had made
\* a rule, and the cycle has ended
C38_FailedAfterARule ==
    /\ p_pc = "sleep"
    /\ analysis_done
    /\ p_rules = <<>>
    /\ eve_analyzer.generated_rules # <<>>

====
